---- MODULE Spec2Model ----
(***************************************************************************)
(* A model of qscan's asynchronous TCP connect scanner                     *)
(* (qscan/src/qscanner.rs): the target expander (ports_parse,              *)
(* addresses_parse), the socket iterator (sockiter::SockIter), the         *)
(* QScanner configuration mutators and the scan engine (scan_tcp_connect   *)
(* with its per-endpoint probe scan_socket_tcp_connect).                   *)
(***************************************************************************)
EXTENDS Integers, Sequences, FiniteSets, TLC

(***************************************************************************)
(* Bounds of the model.                                                    *)
(***************************************************************************)
\* host addresses are 1..MaxHost
MaxHost == 2
\* port numbers used as Vec<u16> arguments are 1..MaxPort
MaxPort == 1
\* longest Vec argument given to set_vec_targets / add_vec_targets
MaxVecLen == 2
\* set_batch is called with 0..MaxBatch
MaxBatch == 2
\* set_ntries is called with 0..MaxTries
MaxTries == 2
\* set_timeout_ms is called with 0..MaxTimeoutMs
MaxTimeoutMs == 0
\* public calls made on one scanner after QScanner::new
MaxCalls == 2
\* longest port text given to ports_parse on its own (a few longer ones apart)
MaxPortTextLen == 3
\* longest host text given to addresses_parse on its own (a few longer ones apart)
MaxHostTextLen == 3

(***************************************************************************)
(* Program constants.                                                      *)
(***************************************************************************)
BATCH_DEF == 2500
TIMEOUT_DEF == 1000
TRIES_DEF == 1
U16_MAX == 65535

Max(a, b) == IF a >= b THEN a ELSE b

Hosts == 1..MaxHost
PortArgs == 1..MaxPort

\* all sequences over S of length at most n
SeqsUpTo(S, n) == UNION {[1..k -> S] : k \in 0..n}

(***************************************************************************)
(* Itertools::unique: keeps the first occurrence of every element.         *)
(***************************************************************************)
RECURSIVE UniqueFrom(_, _)
UniqueFrom(s, seen) ==
    IF s = <<>> THEN <<>>
    ELSE IF Head(s) \in seen THEN UniqueFrom(Tail(s), seen)
    ELSE <<Head(s)>> \o UniqueFrom(Tail(s), seen \cup {Head(s)})

\* mutant: the last occurrence of every element is kept, not the first
Unique_KeepsLast(s) ==
    LET Rev(t) == [i \in 1..Len(t) |-> t[Len(t) + 1 - i]]
    IN  Rev(UniqueFrom(Rev(s), {}))

Unique(s) == UniqueFrom(s, {})

(***************************************************************************)
(* Strings are sequences of one-character strings.                         *)
(***************************************************************************)
IsWhitespace(c) == c = " "

RECURSIVE FilterWhitespace(_)
FilterWhitespace(s) ==
    IF s = <<>> THEN <<>>
    ELSE IF IsWhitespace(Head(s)) THEN FilterWhitespace(Tail(s))
    ELSE <<Head(s)>> \o FilterWhitespace(Tail(s))

\* str::split(sep): the pieces between separators; n separators give n+1
\* pieces, so the empty string gives one empty piece.
RECURSIVE SplitAcc(_, _, _)
SplitAcc(s, sep, cur) ==
    IF s = <<>> THEN <<cur>>
    ELSE IF Head(s) = sep THEN <<cur>> \o SplitAcc(Tail(s), sep, <<>>)
    ELSE SplitAcc(Tail(s), sep, Append(cur, Head(s)))

Split(s, sep) == SplitAcc(s, sep, <<>>)

Digits == {"0", "1", "2", "3", "4", "5", "6", "7", "8", "9"}

DigitVal(c) ==
    CASE c = "0" -> 0 [] c = "1" -> 1 [] c = "2" -> 2 [] c = "3" -> 3
      [] c = "4" -> 4 [] c = "5" -> 5 [] c = "6" -> 6 [] c = "7" -> 7
      [] c = "8" -> 8 [] c = "9" -> 9

\* mutant: the digits are read from the last to the first
RECURSIVE DecimalAcc_LastDigitFirst(_, _)
DecimalAcc_LastDigitFirst(s, acc) ==
    IF s = <<>> THEN acc
    ELSE DecimalAcc_LastDigitFirst(SubSeq(s, 1, Len(s) - 1), acc * 10 + DigitVal(s[Len(s)]))

RECURSIVE DecimalAcc(_, _)
DecimalAcc(s, acc) ==
    IF s = <<>> THEN acc ELSE DecimalAcc(Tail(s), acc * 10 + DigitVal(Head(s)))

\* str::parse::<u16>: a non-empty run of digits whose value fits 16 bits
\* (an optional leading "+" is accepted by Rust; "+" is not in the alphabet).
ParseU16(s) ==
    IF s = <<>> \/ (\E i \in 1..Len(s) : s[i] \notin Digits)
    THEN [ok |-> FALSE, v |-> 0]
    ELSE IF DecimalAcc(s, 0) > U16_MAX THEN [ok |-> FALSE, v |-> 0]
    ELSE [ok |-> TRUE, v |-> DecimalAcc(s, 0)]

\* mutant: the half-open range range[0]..range[1]
RangeInclusive_HalfOpen(a, b) == IF a < b THEN [i \in 1..(b - a) |-> a + i - 1] ELSE <<>>

\* range[0]..=range[1]
RangeInclusive(a, b) == IF a <= b THEN [i \in 1..(b - a + 1) |-> a + i - 1] ELSE <<>>

\* the ports one non-empty token contributes; ok = FALSE is a panic
\* (unwrap of a ParseIntError, or "Invalid Range")
PortToken(p) ==
    LET parts == Split(p, "-")
        range == [i \in 1..Len(parts) |-> ParseU16(parts[i])]
    IN  IF \E i \in 1..Len(range) : ~range[i].ok THEN [ok |-> FALSE, v |-> <<>>]
        ELSE IF Len(range) = 1 THEN [ok |-> TRUE, v |-> <<range[1].v>>]
        ELSE IF Len(range) = 2
             THEN [ok |-> TRUE, v |-> RangeInclusive(range[1].v, range[2].v)]
        ELSE [ok |-> FALSE, v |-> <<>>]

RECURSIVE PortTokens(_)
PortTokens(toks) ==
    IF toks = <<>> THEN [ok |-> TRUE, v |-> <<>>]
    ELSE IF Head(toks) = <<>> THEN PortTokens(Tail(toks))
    ELSE LET t == PortToken(Head(toks))
         IN  IF ~t.ok THEN [ok |-> FALSE, v |-> <<>>]
             ELSE LET r == PortTokens(Tail(toks))
                  IN  IF ~r.ok THEN [ok |-> FALSE, v |-> <<>>]
                      ELSE [ok |-> TRUE, v |-> t.v \o r.v]

ports_parse(str) ==
    LET pv == PortTokens(Split(FilterWhitespace(str), ","))
    IN  IF pv.ok THEN [ok |-> TRUE, v |-> Unique(pv.v)] ELSE pv

(***************************************************************************)
(* The environment of the host expander.  A host spec is a sequence of     *)
(* characters; besides "," and " " every character stands for one piece    *)
(* of text whose meaning the environment fixes:                            *)
(*   a digit d with d \in Hosts   the literal address of host d            *)
(*   "c"   a CIDR block holding the hosts 1 and 2                          *)
(*   "n"   a name the platform resolver maps to hosts 2 and 1              *)
(*   "m"   a name only the fallback resolver knows (hosts 1 and 2)         *)
(*   "p"   the literal "address:port" form of host 1                       *)
(*   "f"   the path of a readable file with the lines "2", "x", "c"        *)
(*   "g"   the path of a file that cannot be opened                        *)
(*   "x"   text that is none of these                                      *)
(* ":80" is the text format!("{}:{}", addr, 80) appends.                   *)
(***************************************************************************)
None == [ok |-> FALSE, v |-> <<>>]
Some(v) == [ok |-> TRUE, v |-> v]

IsLiteral(tok) == Len(tok) = 1 /\ tok[1] \in Digits /\ DigitVal(tok[1]) \in Hosts

\* IpCidr::from_str(addr).map(|cidr| cidr.iter().collect()): a bare address
\* is a block of one address
CidrOf(tok) ==
    IF tok = <<"c">> THEN Some(<<1, 2>>)
    ELSE IF IsLiteral(tok) THEN Some(<<DigitVal(tok[1])>>)
    ELSE None

\* str::to_socket_addrs: needs the "host:port" form; resolves names through
\* the platform resolver
ToSocketAddrs(s) ==
    IF s = <<"n", ":80">> THEN Some(<<2, 1>>)
    ELSE IF s = <<"p">> THEN Some(<<1>>)
    ELSE IF Len(s) = 2 /\ s[2] = ":80" /\ IsLiteral(<<s[1]>>) THEN Some(<<DigitVal(s[1])>>)
    ELSE None

\* alt_resolver.lookup_ip
LookupIp(s) == IF s = <<"m">> THEN Some(<<1, 2>>) ELSE None

IsFile(tok) == tok \in {<<"f">>, <<"g">>}
FileOpens(tok) == tok = <<"f">>
FileLines(tok) == IF tok = <<"f">> THEN << <<"2">>, <<"x">>, <<"c">> >> ELSE <<>>

domain_name_resolve_to_ip(source) ==
    IF ToSocketAddrs(source).ok THEN ToSocketAddrs(source).v
    ELSE IF LookupIp(source).ok THEN LookupIp(source).v
    ELSE <<>>

address_parse(addr) ==
    IF CidrOf(addr).ok THEN CidrOf(addr).v
    ELSE IF ToSocketAddrs(addr \o <<":80">>).ok
         THEN <<Head(ToSocketAddrs(addr \o <<":80">>).v)>>
    ELSE domain_name_resolve_to_ip(addr)

RECURSIVE FileAddresses(_)
FileAddresses(lines) ==
    IF lines = <<>> THEN <<>>
    ELSE address_parse(Head(lines)) \o FileAddresses(Tail(lines))

read_addresses_from_file(path) ==
    IF FileOpens(path) THEN Some(FileAddresses(FileLines(path))) ELSE None

\* mutant: a file that cannot be opened is skipped without a line
HostToken_SilentOpenError(addr) ==
    IF address_parse(addr) # <<>> THEN [v |-> address_parse(addr), out |-> <<>>]
    ELSE IF ~IsFile(addr) THEN [v |-> <<>>, out |-> << <<"Error: not a file", addr>> >>]
    ELSE IF read_addresses_from_file(addr).ok
         THEN [v |-> read_addresses_from_file(addr).v, out |-> <<>>]
    ELSE [v |-> <<>>, out |-> <<>>]

\* what one non-empty token adds: addresses (v) and lines printed (out)
HostToken(addr) ==
    IF address_parse(addr) # <<>> THEN [v |-> address_parse(addr), out |-> <<>>]
    ELSE IF ~IsFile(addr) THEN [v |-> <<>>, out |-> << <<"Error: not a file", addr>> >>]
    ELSE IF read_addresses_from_file(addr).ok
         THEN [v |-> read_addresses_from_file(addr).v, out |-> <<>>]
    ELSE [v |-> <<>>, out |-> << <<"Error: unknown target", addr>> >>]

RECURSIVE HostTokens(_)
HostTokens(toks) ==
    IF toks = <<>> THEN [v |-> <<>>, out |-> <<>>]
    ELSE IF Head(toks) = <<>> THEN HostTokens(Tail(toks))
    ELSE LET t == HostToken(Head(toks))
             r == HostTokens(Tail(toks))
         IN  [v |-> t.v \o r.v, out |-> t.out \o r.out]

addresses_parse(str) ==
    LET r == HostTokens(Split(FilterWhitespace(str), ","))
    IN  [v |-> Unique(r.v), out |-> r.out]

(***************************************************************************)
(* sockiter::SockIter: iproduct!(ports, ips), ports outer and ips inner.   *)
(* The cursor is the number of endpoints already yielded.                  *)
(***************************************************************************)
SockCount(hs, ps) == Len(ps) * Len(hs)

\* the endpoint <<ip, port>> yielded by the (n+1)-th call of next()
SockAt(hs, ps, n) == <<hs[(n % Len(hs)) + 1], ps[(n \div Len(hs)) + 1]>>

\* Iterator::next: None at the end of the stream
SockIterHasNext(hs, ps, n) == n < SockCount(hs, ps)

(***************************************************************************)
(* Error texts are sequences of words.  The connect attempt of a probe     *)
(* ends with a stream, with an io::Error carrying one of the texts of      *)
(* IoErrors, or with Elapsed (the timeout).                                *)
(***************************************************************************)
IoErrors ==
    { <<"Connection", "refused", "(os", "error", "111)">>,
      <<"Too", "many", "open", "files", "(os", "error", "24)">>,
      <<"TOO", "MANY", "OPEN", "FILES">> }

ElapsedText == <<"deadline", "has", "elapsed">>

\* char::to_lowercase on the words that occur
LowerWord(w) ==
    CASE w = "Too" -> "too" [] w = "TOO" -> "too" [] w = "MANY" -> "many"
      [] w = "OPEN" -> "open" [] w = "FILES" -> "files"
      [] w = "Connection" -> "connection" [] OTHER -> w

ToLowercase(text) == [i \in 1..Len(text) |-> LowerWord(text[i])]

\* str::contains
Contains(text, pat) ==
    \E i \in 0..(Len(text) - Len(pat)) : \A j \in 1..Len(pat) : text[i + j] = pat[j]

\* mutant: the text is matched without lower-casing it first
IsTooManyOpenFiles_CaseSensitive(err_str) ==
    Contains(err_str, <<"too", "many", "open", "files">>)

\* err_str.to_lowercase().contains("too many open files")
IsTooManyOpenFiles(err_str) ==
    Contains(ToLowercase(err_str), <<"too", "many", "open", "files">>)

(***************************************************************************)
(* State.  The fields of QScanner, the frame of the running                *)
(* scan_tcp_connect call, and standard output.                             *)
(***************************************************************************)
VARIABLES
    ips,            \* QScanner.ips
    ports,          \* QScanner.ports
    scan_type,      \* QScanner.scan_type
    print_mode,     \* QScanner.print_mode
    batch,          \* QScanner.batch (u16)
    to,             \* QScanner.to, in milliseconds
    tries,          \* QScanner.tries (NonZeroU8)
    last_results,   \* QScanner.last_results: None or Some(v)
    pc,             \* where the caller is: "idle" (between calls), "fill",
                    \* "loop", "refill", "classify" (inside scan_tcp_connect),
                    \* "done" (scan_tcp_connect has just returned), "panicked"
    fill_i,         \* iterations of the initial fill loop made so far
    sock_res,       \* scan_tcp_connect: the result vector being built
    sock_it,        \* scan_tcp_connect: endpoints the iterator has yielded
    ftrs,           \* scan_tcp_connect: the FuturesUnordered of probes
    result,         \* scan_tcp_connect: the completion being handled
    stdout,         \* lines printed by the current (or last) call
    fatal,          \* the text that made the process panic, <<>> if none
    delivered,      \* history: the completions ftrs.next() has yielded, in order
    calls,          \* history: public calls made after QScanner::new
    last_call,      \* history: the public call made last: its name, its
                    \* arguments, and whether the call before it was the same
    fn_in,          \* a function of the target expander called on its own:
                    \* [fn |-> its name, arg |-> its argument, ...]
    fn_out,         \* what that call returned, NotReturned before it returns
    net,            \* the network when it is fixed beforehand: what every
                    \* connect attempt to every endpoint gives, NoNet when the
                    \* attempts end as they may
    prod,           \* a sockiter::SockIter stepped on its own: the state of
                    \* its Product and what it has yielded, NoProd without one
    args,           \* the command line of the qsc driver (struct Args), NoArgs
                    \* when the library is used without the driver
    dpc,            \* the driver's position in main, "none" without the driver
    ping_res        \* history: what the driver's ping scan returned, None
                    \* before it returns

vars == <<ips, ports, scan_type, print_mode, batch, to, tries, last_results, pc,
          fill_i, sock_res, sock_it, ftrs, result, stdout, fatal, delivered, calls,
          last_call, fn_in, fn_out, prod, net, args, dpc, ping_res>>

\* the expander call made on its own and the socket iterator stepped on its
\* own; the scanner's methods leave them alone
expander == <<fn_in, fn_out, prod, net>>
NoProd == [made |-> FALSE]
NoNet == [fixed |-> FALSE, at |-> <<>>]
NoCall == [fn |-> "none", arg |-> <<>>, rendered |-> FALSE, from |-> <<>>]
NotReturned == [returned |-> FALSE]

\* the command-line driver; the library's methods know nothing of it
driver == <<args, dpc, ping_res>>
NoArgs == [mode |-> "none"]
NoDriver == args = NoArgs /\ dpc = "none" /\ ping_res = [ok |-> FALSE, v |-> <<>>]

config == <<scan_type, print_mode, batch, to, tries>>
frame == <<fill_i, sock_res, sock_it, ftrs, result, delivered>>

NoResult == [tag |-> "None", sock |-> <<0, 0>>, msg |-> <<>>]
OkResult(socket) == [tag |-> "Ok", sock |-> socket, msg |-> <<>>]
ErrResult(socket, msg) == [tag |-> "Err", sock |-> socket, msg |-> msg]

\* the spec strings QScanner::new, set_targets and add_targets are called with
HostSpecs ==
    { <<>>, <<",", ",">>, <<"1">>, <<"2", ",", " ", "1">>, <<"c">>, <<"x", ",", "2">> }
PortSpecs ==
    { <<>>, <<",", ",">>, <<"1">>, <<"2">>, <<"2", "-", "1">>,
      <<"1", "-", "2", "-", "1">> }

PrintModes == {"NonRealTime", "RealTime", "RealTimeAll"}
ScanTypes == {"TcpConnect"}

\* a frame that holds nothing: no scan_tcp_connect call is running
NoFrame ==
    /\ fill_i = 0 /\ sock_res = <<>> /\ sock_it = 0 /\ ftrs = {}
    /\ result = NoResult /\ delivered = <<>>

\* QScanner::new(addresses, ports).  The struct literal evaluates
\* addresses_parse, then ports_parse; a panic of ports_parse leaves no scanner.
new(addresses, pspec) ==
    /\ ips = IF ports_parse(pspec).ok THEN addresses_parse(addresses).v ELSE <<>>
    /\ ports = ports_parse(pspec).v
    /\ scan_type = "TcpConnect"
    /\ print_mode = "NonRealTime"
    /\ batch = BATCH_DEF
    /\ to = TIMEOUT_DEF
    /\ tries = Max(TRIES_DEF, 1)
    /\ last_results = None
    /\ pc = IF ports_parse(pspec).ok THEN "idle" ELSE "panicked"
    /\ fatal = IF ports_parse(pspec).ok THEN <<>> ELSE <<"ports_parse">>
    /\ stdout = addresses_parse(addresses).out
    /\ NoFrame
    /\ calls = 0
    /\ last_call = [fn |-> "new", with |-> <<>>, again |-> FALSE]

Init ==
    /\ \E a \in HostSpecs, p \in PortSpecs : new(a, p)
    /\ fn_in = NoCall /\ fn_out = NotReturned /\ prod = NoProd /\ net = NoNet
    /\ NoDriver

\* the record of the call of method f with the arguments args
Call(f, given) ==
    [fn |-> f, with |-> given, again |-> last_call.fn = f /\ last_call.with = given]

\* a public method can be called: no call is running (the methods take
\* &mut self) and the process has not panicked. MaxCalls bounds the calls of
\* a free client of the library; the driver makes the calls main.rs lists
CanCall == pc \in {"idle", "done"} /\ (dpc = "none" => calls < MaxCalls)

\* what every call other than scan_tcp_connect leaves of the last scan's frame
Called ==
    /\ calls' = calls + 1
    /\ fill_i' = 0 /\ sock_res' = <<>> /\ sock_it' = 0 /\ ftrs' = {}
    /\ result' = NoResult /\ delivered' = <<>>
    /\ UNCHANGED expander

set_scan_type(t) ==
    /\ CanCall /\ Called
    /\ last_call' = Call("set_scan_type", <<t>>)
    /\ scan_type' = t
    /\ pc' = "idle" /\ stdout' = <<>>
    /\ UNCHANGED <<ips, ports, print_mode, batch, to, tries, last_results, fatal>>

set_print_mode(m) ==
    /\ CanCall /\ Called
    /\ last_call' = Call("set_print_mode", <<m>>)
    /\ print_mode' = m
    /\ pc' = "idle" /\ stdout' = <<>>
    /\ UNCHANGED <<ips, ports, scan_type, batch, to, tries, last_results, fatal>>

set_batch(b) ==
    /\ CanCall /\ Called
    /\ last_call' = Call("set_batch", <<b>>)
    /\ batch' = b
    /\ pc' = "idle" /\ stdout' = <<>>
    /\ UNCHANGED <<ips, ports, scan_type, print_mode, to, tries, last_results, fatal>>

set_timeout_ms(to_ms) ==
    /\ CanCall /\ Called
    /\ last_call' = Call("set_timeout_ms", <<to_ms>>)
    /\ to' = to_ms
    /\ pc' = "idle" /\ stdout' = <<>>
    /\ UNCHANGED <<ips, ports, scan_type, print_mode, batch, tries, last_results, fatal>>

\* mutant: the argument is stored as given
set_ntries_AsGiven(ntries) ==
    /\ CanCall /\ Called
    /\ last_call' = Call("set_ntries", <<ntries>>)
    /\ tries' = ntries
    /\ pc' = "idle" /\ stdout' = <<>>
    /\ UNCHANGED <<ips, ports, scan_type, print_mode, batch, to, last_results, fatal>>

set_ntries(ntries) ==
    /\ CanCall /\ Called
    /\ last_call' = Call("set_ntries", <<ntries>>)
    /\ tries' = Max(ntries, 1)
    /\ pc' = "idle" /\ stdout' = <<>>
    /\ UNCHANGED <<ips, ports, scan_type, print_mode, batch, to, last_results, fatal>>

reset_last_results ==
    /\ CanCall /\ Called
    /\ last_call' = Call("reset_last_results", <<>>)
    /\ last_results' = IF last_results.ok THEN None ELSE last_results
    /\ pc' = "idle" /\ stdout' = <<>>
    /\ UNCHANGED <<ips, ports, scan_type, print_mode, batch, to, tries, fatal>>

\* mutant: new targets clear the cached results
set_targets_ClearsResults(addresses, pspec) ==
    /\ CanCall /\ Called
    /\ last_call' = Call("set_targets", <<addresses, pspec>>)
    /\ ips' = addresses_parse(addresses).v
    /\ stdout' = addresses_parse(addresses).out
    /\ IF ports_parse(pspec).ok
       THEN ports' = ports_parse(pspec).v /\ pc' = "idle" /\ fatal' = fatal
       ELSE ports' = ports /\ pc' = "panicked" /\ fatal' = <<"ports_parse">>
    /\ last_results' = None
    /\ UNCHANGED <<scan_type, print_mode, batch, to, tries>>

\* self.ips is assigned before ports_parse runs, so a panic of ports_parse
\* leaves the new ips with the old ports
set_targets(addresses, pspec) ==
    /\ CanCall /\ Called
    /\ last_call' = Call("set_targets", <<addresses, pspec>>)
    /\ ips' = addresses_parse(addresses).v
    /\ stdout' = addresses_parse(addresses).out
    /\ IF ports_parse(pspec).ok
       THEN ports' = ports_parse(pspec).v /\ pc' = "idle" /\ fatal' = fatal
       ELSE ports' = ports /\ pc' = "panicked" /\ fatal' = <<"ports_parse">>
    /\ UNCHANGED <<scan_type, print_mode, batch, to, tries, last_results>>

add_targets(addresses, pspec) ==
    /\ CanCall /\ Called
    /\ last_call' = Call("add_targets", <<addresses, pspec>>)
    /\ ips' = Unique(ips \o addresses_parse(addresses).v)
    /\ stdout' = addresses_parse(addresses).out
    /\ IF ports_parse(pspec).ok
       THEN ports' = Unique(ports \o ports_parse(pspec).v) /\ pc' = "idle" /\ fatal' = fatal
       ELSE ports' = ports /\ pc' = "panicked" /\ fatal' = <<"ports_parse">>
    /\ UNCHANGED <<scan_type, print_mode, batch, to, tries, last_results>>

set_vec_targets(new_ips, new_ports) ==
    /\ CanCall /\ Called
    /\ last_call' = Call("set_vec_targets", <<new_ips, new_ports>>)
    /\ ips' = new_ips
    /\ ports' = new_ports
    /\ pc' = "idle" /\ stdout' = <<>>
    /\ UNCHANGED <<scan_type, print_mode, batch, to, tries, last_results, fatal>>

\* mutant: the vectors are extended and not deduplicated
add_vec_targets_NoUnique(new_ips, new_ports) ==
    /\ CanCall /\ Called
    /\ last_call' = Call("add_vec_targets", <<new_ips, new_ports>>)
    /\ ips' = ips \o new_ips
    /\ ports' = ports \o new_ports
    /\ pc' = "idle" /\ stdout' = <<>>
    /\ UNCHANGED <<scan_type, print_mode, batch, to, tries, last_results, fatal>>

add_vec_targets(new_ips, new_ports) ==
    /\ CanCall /\ Called
    /\ last_call' = Call("add_vec_targets", <<new_ips, new_ports>>)
    /\ ips' = Unique(ips \o new_ips)
    /\ ports' = Unique(ports \o new_ports)
    /\ pc' = "idle" /\ stdout' = <<>>
    /\ UNCHANGED <<scan_type, print_mode, batch, to, tries, last_results, fatal>>

(***************************************************************************)
(* scan_tcp_connect.                                                       *)
(***************************************************************************)
\* the future scan_socket_tcp_connect(socket) as pushed: nothing tried yet.
\* id is the position of the endpoint in the iterator's stream.
NewProbe(n) == [id |-> n, sock |-> SockAt(ips, ports, n), ntry |-> 0, st |-> "connect"]

\* entry: the locals are created, the initial fill loop is about to run
ScanStart ==
    /\ CanCall
    /\ calls' = calls + 1
    /\ pc' = "fill"
    /\ fill_i' = 0 /\ sock_res' = <<>> /\ sock_it' = 0 /\ ftrs' = {}
    /\ result' = NoResult /\ delivered' = <<>>
    /\ stdout' = <<>>
    /\ last_call' = Call("scan_tcp_connect", <<>>)
    /\ UNCHANGED <<expander, ips, ports, config, last_results, fatal>>

\* mutant: the fill loop runs over 0..=self.batch, one iteration too many
FillPush_OneMore ==
    /\ pc = "fill"
    /\ fill_i <= batch
    /\ SockIterHasNext(ips, ports, sock_it)
    /\ ftrs' = ftrs \cup {NewProbe(sock_it)}
    /\ sock_it' = sock_it + 1
    /\ fill_i' = fill_i + 1
    /\ UNCHANGED <<expander, last_call, ips, ports, config, last_results, pc, sock_res, result, stdout,
                   fatal, delivered, calls>>

\* one iteration of "for _ in 0..self.batch" that finds an endpoint
FillPush ==
    /\ pc = "fill"
    /\ fill_i < batch
    /\ SockIterHasNext(ips, ports, sock_it)
    /\ ftrs' = ftrs \cup {NewProbe(sock_it)}
    /\ sock_it' = sock_it + 1
    /\ fill_i' = fill_i + 1
    /\ UNCHANGED <<expander, last_call, ips, ports, config, last_results, pc, sock_res, result, stdout,
                   fatal, delivered, calls>>

\* mutant: the fill loop ends only by its break
FillEnd_OnlyByBreak ==
    /\ pc = "fill"
    /\ ~SockIterHasNext(ips, ports, sock_it)
    /\ pc' = "loop"
    /\ UNCHANGED <<expander, last_call, ips, ports, config, last_results, fill_i, sock_res, sock_it, ftrs,
                   result, stdout, fatal, delivered, calls>>

\* the fill loop ends: batch iterations made, or the iterator is empty (break)
FillEnd ==
    /\ pc = "fill"
    /\ ~(fill_i < batch /\ SockIterHasNext(ips, ports, sock_it))
    /\ pc' = "loop"
    /\ UNCHANGED <<expander, last_call, ips, ports, config, last_results, fill_i, sock_res, sock_it, ftrs,
                   result, stdout, fatal, delivered, calls>>

\* a probe returns r: ftrs.next() yields it and the loop body starts
Complete(p, r) ==
    /\ ftrs' = ftrs \ {p}
    /\ result' = r
    /\ delivered' = Append(delivered, [id |-> p.id, tag |-> r.tag])
    /\ pc' = "refill"
    /\ UNCHANGED <<expander, last_call, ips, ports, config, last_results, fill_i, sock_res, sock_it, stdout,
                   fatal, calls>>

Panic(text) ==
    /\ pc' = "panicked"
    /\ fatal' = text
    /\ UNCHANGED <<expander, last_call, ips, ports, config, last_results, frame, stdout, calls>>

\* the end of one iteration of "for ntry in 0..tries" that did not return:
\* the next iteration, or unreachable!() after the last one
NextTry(p) ==
    IF p.ntry + 1 < tries
    THEN /\ ftrs' = (ftrs \ {p}) \cup {[p EXCEPT !.ntry = p.ntry + 1]}
         /\ UNCHANGED <<expander, last_call, ips, ports, config, last_results, pc, fill_i, sock_res, sock_it,
                        result, stdout, fatal, delivered, calls>>
    ELSE Panic(<<"unreachable">>)

\* mutant: a probe that is alone in flight gives up at its first failure
Failed_GivesUpWhenAlone(p, err_str) ==
    IF p.ntry = tries - 1 \/ ftrs = {p}
    THEN Complete(p, ErrResult(p.sock, err_str \o <<p.sock[1]>>))
    ELSE NextTry(p)

\* mutant: the last try is taken to be ntry == tries
Failed_OffByOne(p, err_str) ==
    IF p.ntry = tries
    THEN Complete(p, ErrResult(p.sock, err_str \o <<p.sock[1]>>))
    ELSE NextTry(p)

\* mutant: the first failed attempt ends the probe
Failed_NoRetry(p, err_str) ==
    Complete(p, ErrResult(p.sock, err_str \o <<p.sock[1]>>))

\* a failed attempt: Err on the last try, else the next try
Failed(p, err_str) ==
    IF p.ntry = tries - 1
    THEN Complete(p, ErrResult(p.sock, err_str \o <<p.sock[1]>>))
    ELSE NextTry(p)

\* tcp_connect gave Ok(Ok(x)): the probe awaits x.shutdown()
ConnectStream(p) ==
    /\ pc = "loop" /\ p \in ftrs /\ p.st = "connect"
    /\ ftrs' = (ftrs \ {p}) \cup {[p EXCEPT !.st = "shutdown"]}
    /\ UNCHANGED <<expander, last_call, ips, ports, config, last_results, pc, fill_i, sock_res, sock_it,
                   result, stdout, fatal, delivered, calls>>

\* tcp_connect gave Ok(Err(e))
ConnectIoError(p, e) ==
    /\ pc = "loop" /\ p \in ftrs /\ p.st = "connect"
    /\ IF IsTooManyOpenFiles(e)
       THEN Panic(<<"Too many open files, reduce batch size", batch>>)
       ELSE Failed(p, e)

\* tcp_connect gave Err(e): the timeout elapsed
ConnectElapsed(p) ==
    /\ pc = "loop" /\ p \in ftrs /\ p.st = "connect"
    /\ Failed(p, ElapsedText)

\* mutant: a failed shutdown counts as a failed attempt
Shutdown_FailureRetries(p, is_err) ==
    /\ pc = "loop" /\ p \in ftrs /\ p.st = "shutdown"
    /\ IF is_err
       THEN Failed(p, <<"Shutdown", "error">>)
       ELSE Complete(p, OkResult(p.sock))

\* x.shutdown() ended; is_err tells how
Shutdown(p, is_err) ==
    /\ pc = "loop" /\ p \in ftrs /\ p.st = "shutdown"
    /\ IF is_err
       THEN Complete(p, ErrResult(p.sock, <<"Shutdown", "error">>))
       ELSE Complete(p, OkResult(p.sock))

\* mutant: the loop body does not pull from the iterator
Refill_NoPull ==
    /\ pc = "refill"
    /\ pc' = "classify"
    /\ UNCHANGED <<expander, last_call, ips, ports, config, last_results, fill_i, sock_res, sock_it,
                   ftrs, result, stdout, fatal, delivered, calls>>

\* loop body, first statement: pull one endpoint and push its probe
Refill ==
    /\ pc = "refill"
    /\ IF SockIterHasNext(ips, ports, sock_it)
       THEN ftrs' = ftrs \cup {NewProbe(sock_it)} /\ sock_it' = sock_it + 1
       ELSE UNCHANGED <<ftrs, sock_it>>
    /\ pc' = "classify"
    /\ UNCHANGED <<expander, last_call, ips, ports, config, last_results, fill_i, sock_res, result, stdout,
                   fatal, delivered, calls>>

\* mutant: RealTime prints the Closed outcomes too
PrintedFor_ClosedInRealTime(m, r) ==
    IF r.tag = "Ok"
    THEN IF m = "RealTime" THEN << <<r.sock[1], r.sock[2]>> >>
         ELSE IF m = "RealTimeAll" THEN << <<r.sock[1], r.sock[2], "OPEN">> >>
         ELSE <<>>
    ELSE IF m \in {"RealTime", "RealTimeAll"}
         THEN << <<r.sock[1], r.sock[2], "CLOSED">> >>
         ELSE <<>>

\* the lines "match result" prints for r under print mode m
PrintedFor(m, r) ==
    IF r.tag = "Ok"
    THEN IF m = "RealTime" THEN << <<r.sock[1], r.sock[2]>> >>
         ELSE IF m = "RealTimeAll" THEN << <<r.sock[1], r.sock[2], "OPEN">> >>
         ELSE <<>>
    ELSE IF m = "RealTimeAll" THEN << <<r.sock[1], r.sock[2], "CLOSED">> >>
         ELSE <<>>

\* the QScanTcpConnectResult pushed for r
ResultFor(r) == [target |-> r.sock, state |-> IF r.tag = "Ok" THEN "Open" ELSE "Close"]

\* mutant: the result is inserted at the front of sock_res
Classify_Prepends ==
    /\ pc = "classify"
    /\ stdout' = stdout \o PrintedFor(print_mode, result)
    /\ sock_res' = <<ResultFor(result)>> \o sock_res
    /\ result' = NoResult
    /\ pc' = "loop"
    /\ UNCHANGED <<expander, last_call, ips, ports, config, last_results, fill_i, sock_it, ftrs, fatal,
                   delivered, calls>>

\* loop body, "match result": print, then push onto sock_res
Classify ==
    /\ pc = "classify"
    /\ stdout' = stdout \o PrintedFor(print_mode, result)
    /\ sock_res' = Append(sock_res, ResultFor(result))
    /\ result' = NoResult
    /\ pc' = "loop"
    /\ UNCHANGED <<expander, last_call, ips, ports, config, last_results, fill_i, sock_it, ftrs, fatal,
                   delivered, calls>>

\* mutant: the new results are appended to the cached ones
ScanReturn_KeepsOld ==
    /\ pc = "loop"
    /\ ftrs = {}
    /\ last_results' = Some(last_results.v \o sock_res)
    /\ pc' = "done"
    /\ UNCHANGED <<expander, last_call, ips, ports, config, frame, stdout, fatal, calls>>

\* mutant: a scan that gathered nothing leaves last_results as it was
ScanReturn_KeepsWhenEmpty ==
    /\ pc = "loop"
    /\ ftrs = {}
    /\ last_results' = IF sock_res = <<>> THEN last_results ELSE Some(sock_res)
    /\ pc' = "done"
    /\ UNCHANGED <<expander, last_call, ips, ports, config, frame, stdout, fatal, calls>>

\* ftrs.next() gave None: the loop ends, last_results is assigned, the call returns
ScanReturn ==
    /\ pc = "loop"
    /\ ftrs = {}
    /\ last_results' = Some(sock_res)
    /\ pc' = "done"
    /\ UNCHANGED <<expander, last_call, ips, ports, config, frame, stdout, fatal, calls>>

Next ==
    \/ (\E t \in ScanTypes : set_scan_type(t))
          /\ UNCHANGED driver
    \/ (\E m \in PrintModes : set_print_mode(m))
          /\ UNCHANGED driver
    \/ (\E b \in 0..MaxBatch : set_batch(b))
          /\ UNCHANGED driver
    \/ (\E ms \in 0..MaxTimeoutMs : set_timeout_ms(ms))
          /\ UNCHANGED driver
    \/ (\E n \in 0..MaxTries : set_ntries(n))
          /\ UNCHANGED driver
    \/ reset_last_results /\ UNCHANGED driver
    \/ (\E a \in HostSpecs, p \in PortSpecs : set_targets(a, p))
          /\ UNCHANGED driver
    \/ (\E a \in HostSpecs, p \in PortSpecs : add_targets(a, p))
          /\ UNCHANGED driver
    \/ (\E h \in SeqsUpTo(Hosts, MaxVecLen), p \in SeqsUpTo(PortArgs, MaxVecLen) :
          set_vec_targets(h, p))
          /\ UNCHANGED driver
    \/ (\E h \in SeqsUpTo(Hosts, MaxVecLen), p \in SeqsUpTo(PortArgs, MaxVecLen) :
          add_vec_targets(h, p))
          /\ UNCHANGED driver
    \/ ScanStart /\ UNCHANGED driver
    \/ FillPush /\ UNCHANGED driver
    \/ FillEnd /\ UNCHANGED driver
    \/ (\E p \in ftrs : ConnectStream(p))
          /\ UNCHANGED driver
    \/ (\E p \in ftrs, e \in IoErrors : ConnectIoError(p, e))
          /\ UNCHANGED driver
    \/ (\E p \in ftrs : ConnectElapsed(p))
          /\ UNCHANGED driver
    \/ (\E p \in ftrs, is_err \in BOOLEAN : Shutdown(p, is_err))
          /\ UNCHANGED driver
    \/ Refill /\ UNCHANGED driver
    \/ Classify /\ UNCHANGED driver
    \/ ScanReturn /\ UNCHANGED driver

Spec == Init /\ [][Next]_vars

(***************************************************************************)
(* The target expander on its own: one of ports_parse, addresses_parse or  *)
(* the body of ports_parse's token loop is called with a text drawn from   *)
(* a bounded set and returns; a port list returned by ports_parse can be   *)
(* written out as text and given to ports_parse again.                     *)
(***************************************************************************)
scanner == <<ips, ports, scan_type, print_mode, batch, to, tries, last_results, pc,
             fill_i, sock_res, sock_it, ftrs, result, stdout, fatal, delivered, calls,
             last_call>>

PortChars == {"0", "1", "2", ",", "-", " "}
HostChars == {"1", "2", "c", "n", "m", "p", "f", "g", "x", ",", " "}

\* u16 as fmt::Display: the decimal digits, no sign, no leading zero
DigitChar(d) ==
    CASE d = 0 -> "0" [] d = 1 -> "1" [] d = 2 -> "2" [] d = 3 -> "3" [] d = 4 -> "4"
      [] d = 5 -> "5" [] d = 6 -> "6" [] d = 7 -> "7" [] d = 8 -> "8" [] d = 9 -> "9"

RECURSIVE Decimal(_)
Decimal(n) == IF n < 10 THEN <<DigitChar(n)>> ELSE Append(Decimal(n \div 10), DigitChar(n % 10))

\* a port list written as comma-separated decimal literals
RECURSIVE Render(_)
Render(pv) ==
    IF pv = <<>> THEN <<>>
    ELSE IF Len(pv) = 1 THEN Decimal(pv[1])
    ELSE Decimal(Head(pv)) \o <<",">> \o Render(Tail(pv))

\* port numbers at both ends of u16, as the two sides of a range token
PortSamples == {0, 1, 2, U16_MAX - 1, U16_MAX}
RangeTokens == {Decimal(a) \o <<"-">> \o Decimal(b) : a, b \in PortSamples}

\* texts longer than MaxPortTextLen / MaxHostTextLen that are called too
LongPortTexts ==
    { <<"1", ",", "0", "-", "2">>,
      <<"0", "-", "2", "2">>,
      <<"2", ",", ",", "0">>,
      <<"1", "-", "-", "2">>,
      <<"1", "2", ",", "2", "1", ",", "1", "2">>,
      <<"2", ",", "1", ",", "0", "-", "2">>,
      <<"0", "-", "1", ",", "1", "-", "2">>,
      <<"1", " ", ",", " ", "2", "-", "1", ",", "0">>,
      <<",", ",", "1", ",", ",", "2", ",", ",">>,
      <<"1", "-", "2", "-", "2", ",", "1">> }
LongHostTexts ==
    { <<"1", ",", "x", ",", "2">>,
      <<"2", ",", "g", ",", "c">>,
      <<"n", ",", "x", ",", "m">>,
      <<",", ",", "2", ",", ",", "1", ",", ",">> }

PortTexts == SeqsUpTo(PortChars, MaxPortTextLen) \cup LongPortTexts
HostTexts == SeqsUpTo(HostChars, MaxHostTextLen) \cup LongHostTexts

ExpanderCall(f, text) == [fn |-> f, arg |-> text, rendered |-> FALSE, from |-> <<>>]

ExpanderCalls ==
    {ExpanderCall("ports_parse", t) : t \in PortTexts}
    \cup {ExpanderCall("addresses_parse", t) : t \in HostTexts}
    \cup {ExpanderCall("range", t) : t \in RangeTokens}

\* a return value: ok = FALSE is a panic; out holds the lines printed
Returned(isok, v, out) == [returned |-> TRUE, ok |-> isok, v |-> v, out |-> out]

ExpanderInit ==
    /\ new(<<>>, <<>>)
    /\ fn_in \in ExpanderCalls
    /\ fn_out = NotReturned /\ prod = NoProd /\ net = NoNet
    /\ NoDriver

\* ports_parse(fn_in.arg) returns or panics
CallPortsParse ==
    /\ fn_in.fn = "ports_parse" /\ fn_out = NotReturned
    /\ fn_out' = Returned(ports_parse(fn_in.arg).ok, ports_parse(fn_in.arg).v, <<>>)
    /\ UNCHANGED <<fn_in, prod, net, scanner, driver>>

\* addresses_parse(fn_in.arg) returns
CallAddressesParse ==
    /\ fn_in.fn = "addresses_parse" /\ fn_out = NotReturned
    /\ fn_out' = Returned(TRUE, addresses_parse(fn_in.arg).v, addresses_parse(fn_in.arg).out)
    /\ UNCHANGED <<fn_in, prod, net, scanner, driver>>

\* the body of the token loop of ports_parse runs on the range token fn_in.arg
CallPortToken ==
    /\ fn_in.fn = "range" /\ fn_out = NotReturned
    /\ fn_out' = Returned(PortToken(fn_in.arg).ok, PortToken(fn_in.arg).v, <<>>)
    /\ UNCHANGED <<fn_in, prod, net, scanner, driver>>

\* the list ports_parse returned is written out and is the next argument
RenderPorts ==
    /\ fn_in.fn = "ports_parse" /\ ~fn_in.rendered
    /\ fn_out # NotReturned /\ fn_out.ok
    /\ fn_in' = [fn |-> "ports_parse", arg |-> Render(fn_out.v), rendered |-> TRUE,
                 from |-> fn_out.v]
    /\ fn_out' = NotReturned
    /\ UNCHANGED <<prod, net, scanner, driver>>

ExpanderNext ==
    \/ CallPortsParse
    \/ CallAddressesParse
    \/ CallPortToken
    \/ RenderPorts

SpecExpander == ExpanderInit /\ [][ExpanderNext]_vars

(***************************************************************************)
(* Properties.                                                             *)
(***************************************************************************)
ScanPcs == {"fill", "loop", "refill", "classify"}

\* how often x occurs in the sequence s
Count(s, x) == Cardinality({i \in 1..Len(s) : s[i] = x})

\* the endpoints of hosts x ports
CrossProduct == {<<ips[i], ports[j]>> : i \in 1..Len(ips), j \in 1..Len(ports)}

Targets(res) == {res[i].target : i \in 1..Len(res)}

\* C1: when scan_tcp_connect has returned, every endpoint of hosts x ports
\* occurs exactly once in the returned vector and no other endpoint occurs.
C1_EachEndpointExactlyOnce ==
    pc = "done" =>
        /\ \A e \in CrossProduct : Count([i \in 1..Len(last_results.v) |->
                                            last_results.v[i].target], e) = 1
        /\ Targets(last_results.v) \subseteq CrossProduct

\* C2: when scan_tcp_connect has returned, for every batch value,
\* the length of last_results is |hosts| * |ports|.
C2_LengthIsProduct ==
    pc = "done" => last_results.ok /\ Len(last_results.v) = Len(ips) * Len(ports)

\* C3: in every state of a scan the in-flight set holds at most batch probes.
C3_InFlightAtMostBatch == Cardinality(ftrs) <= batch

\* C3 witness: the ceiling binds: fewer probes than endpoints fit, and after
\* a completion and its refill the scan again awaits with batch probes in flight.
C3_Witness ==
    /\ pc = "loop" /\ batch >= 1 /\ Cardinality(ftrs) = batch
    /\ sock_res # <<>>
    /\ sock_it > batch

\* C4: scan_tcp_connect returns only when the iterator is exhausted and the
\* in-flight set is empty, every pulled endpoint being in the result vector.
C4_ReturnsOnlyWhenDrained ==
    pc = "done" =>
        /\ ~SockIterHasNext(ips, ports, sock_it)
        /\ ftrs = {}
        /\ Len(last_results.v) = sock_it

\* the QScanTcpConnectResult of a completion ftrs.next() yielded in this scan
OutcomeOf(d) ==
    [target |-> SockAt(ips, ports, d.id), state |-> IF d.tag = "Ok" THEN "Open" ELSE "Close"]

\* C5: during a scan last_results keeps its value; it is assigned once, when
\* the call returns after the last probe has completed, and the value holds
\* the outcomes of this scan only, one per completion.
C5_LastResultsReplacedAtEnd ==
    [][ /\ (pc \in ScanPcs /\ pc' # "done") => last_results' = last_results
        /\ (pc \in ScanPcs /\ pc' = "done") =>
              /\ ftrs = {} /\ result = NoResult
              /\ last_results'.ok
              /\ Len(last_results'.v) = Len(delivered)
              /\ \A i \in 1..Len(last_results'.v) :
                    \E k \in 1..Len(delivered) : last_results'.v[i] = OutcomeOf(delivered[k])
      ]_vars

\* C5 witness: a second scan is under way: last_results still holds the
\* outcomes of the earlier scan while this scan has gathered different ones.
C5_Witness ==
    /\ pc = "loop" /\ last_results.ok /\ last_results.v # <<>>
    /\ sock_res # <<>> /\ sock_res[1] # last_results.v[1]

\* C6: after QScanner::new and after any mutator, tries >= 1 and batch >= 1.
C6_TriesAndBatchPositive == tries >= 1 /\ batch >= 1

NoDup(s) == \A i, j \in 1..Len(s) : s[i] = s[j] => i = j

FirstIndex(s, x) == CHOOSE i \in 1..Len(s) : s[i] = x /\ \A k \in 1..(i - 1) : s[k] # x

\* r holds the elements of src once each, ordered by first occurrence in src
FirstSeenOrder(r, src) ==
    /\ NoDup(r)
    /\ {r[i] : i \in 1..Len(r)} = {src[i] : i \in 1..Len(src)}
    /\ \A i, j \in 1..Len(r) : i < j => FirstIndex(src, r[i]) < FirstIndex(src, r[j])

\* C7: after every target mutator hosts and ports hold no duplicate and keep
\* first-seen order: what was there stays in place, what is new follows in
\* the order given.
C7_DedupFirstSeenOrder ==
    [][ /\ \A h \in SeqsUpTo(Hosts, MaxVecLen), p \in SeqsUpTo(PortArgs, MaxVecLen) :
              /\ set_vec_targets(h, p) =>
                    FirstSeenOrder(ips', h) /\ FirstSeenOrder(ports', p)
              /\ add_vec_targets(h, p) =>
                    FirstSeenOrder(ips', ips \o h) /\ FirstSeenOrder(ports', ports \o p)
        /\ \A a \in HostSpecs, p \in PortSpecs :
              /\ (set_targets(a, p) /\ pc' # "panicked") =>
                    NoDup(ips') /\ NoDup(ports')
              /\ (add_targets(a, p) /\ pc' # "panicked") =>
                    /\ FirstSeenOrder(ips', ips \o addresses_parse(a).v)
                    /\ FirstSeenOrder(ports', ports \o ports_parse(p).v)
      ]_vars

\* the io::Error texts whose lower-cased form contains "too many open files"
FdExhaustionTexts ==
    { <<"Too", "many", "open", "files", "(os", "error", "24)">>,
      <<"TOO", "MANY", "OPEN", "FILES">> }

\* C8: a connect attempt (any try) failing with a "too many open files"
\* error aborts the scan at once: no outcome recorded, no retry, nothing
\* drained, last_results kept.  Nothing else aborts a scan: any other connect
\* error, a timeout or a shutdown error retries or ends the probe Closed.
C8_OnlyFdExhaustionAborts ==
    [][ /\ \A p \in ftrs, e \in IoErrors :
              ConnectIoError(p, e) =>
                 IF e \in FdExhaustionTexts
                 THEN /\ pc' = "panicked"
                      /\ UNCHANGED <<sock_res, ftrs, delivered, result, last_results, sock_it>>
                 ELSE /\ pc' # "panicked"
                      /\ \/ /\ p.ntry < tries - 1 /\ pc' = "loop"
                            /\ [p EXCEPT !.ntry = p.ntry + 1] \in ftrs'
                         \/ /\ p.ntry = tries - 1 /\ pc' = "refill"
                            /\ result'.tag = "Err" /\ result'.sock = p.sock
        /\ \A p \in ftrs :
              ConnectElapsed(p) =>
                 /\ pc' # "panicked"
                 /\ \/ /\ p.ntry < tries - 1 /\ pc' = "loop"
                       /\ [p EXCEPT !.ntry = p.ntry + 1] \in ftrs'
                    \/ /\ p.ntry = tries - 1 /\ pc' = "refill"
                       /\ result'.tag = "Err" /\ result'.sock = p.sock
        /\ \A p \in ftrs :
              Shutdown(p, TRUE) =>
                 pc' = "refill" /\ result'.tag = "Err" /\ result'.sock = p.sock
        /\ (pc \in ScanPcs /\ pc' = "panicked") =>
              \E p \in ftrs, e \in FdExhaustionTexts : ConnectIoError(p, e)
      ]_vars

\* C8 witness: the scan was aborted on a first attempt although a second try
\* was configured, with both probes still in flight.
C8_Witness ==
    /\ pc = "panicked" /\ Len(fatal) = 2 /\ fatal[2] = batch
    /\ tries = 2 /\ Cardinality(ftrs) = 2 /\ \A p \in ftrs : p.ntry = 0
    /\ ~last_results.ok

\* C9: the result vector is in completion order: its i-th element is the
\* outcome of the i-th completion the in-flight set delivered.
C9_CompletionOrder ==
    /\ pc \in {"loop", "done"} =>
          sock_res = [i \in 1..Len(delivered) |-> OutcomeOf(delivered[i])]
    /\ pc \in {"refill", "classify"} =>
          sock_res = [i \in 1..(Len(delivered) - 1) |-> OutcomeOf(delivered[i])]
    /\ pc = "done" => last_results = Some(sock_res)

\* C9 witness: a returned vector whose order is not the submission order.
C9_Witness ==
    /\ pc = "done" /\ Len(last_results.v) = 2
    /\ delivered[1].id > delivered[2].id
    /\ last_results.v[1].target = SockAt(ips, ports, 1)
    /\ last_results.v[2].target = SockAt(ips, ports, 0)
    /\ SockAt(ips, ports, 0) # SockAt(ips, ports, 1)

\* the lines the print mode m asks for, for the results res
RECURSIVE LinesFor(_, _)
LinesFor(m, res) ==
    IF res = <<>> THEN <<>>
    ELSE LET r == Head(res)
             line == IF m = "RealTime" /\ r.state = "Open"
                        THEN << <<r.target[1], r.target[2]>> >>
                     ELSE IF m = "RealTimeAll" /\ r.state = "Open"
                        THEN << <<r.target[1], r.target[2], "OPEN">> >>
                     ELSE IF m = "RealTimeAll" /\ r.state = "Close"
                        THEN << <<r.target[1], r.target[2], "CLOSED">> >>
                     ELSE <<>>
         IN  line \o LinesFor(m, Tail(res))

\* C10: the lines a scan prints are fixed by print_mode: RealTime one line
\* ip:port per Open outcome, RealTimeAll one line ip:port:OPEN or
\* ip:port:CLOSED per outcome, NonRealTime none; in result order, each line
\* out before the next completion is awaited.
C10_PrintedLines ==
    /\ pc \in ScanPcs \cup {"done"} => stdout = LinesFor(print_mode, sock_res)
    /\ pc = "done" => last_results.v = sock_res

\* C10 witness: RealTimeAll printed a CLOSED line, then an OPEN line.
C10_Witness ==
    /\ pc = "done" /\ print_mode = "RealTimeAll"
    /\ Len(stdout) = 2 /\ stdout[1][3] = "CLOSED" /\ stdout[2][3] = "OPEN"

\* C10 witness, RealTime: one Open and one Closed outcome gave one line.
C10_WitnessRealTime ==
    /\ pc = "done" /\ print_mode = "RealTime"
    /\ Len(last_results.v) = 2 /\ Len(stdout) = 1

(***************************************************************************)
(* Properties of the target expander, checked under SpecExpander.          *)
(***************************************************************************)
PortsParseReturned == fn_in.fn = "ports_parse" /\ fn_out # NotReturned /\ fn_out.ok
PortsParsePanicked == fn_in.fn = "ports_parse" /\ fn_out # NotReturned /\ ~fn_out.ok
AddressesParseReturned == fn_in.fn = "addresses_parse" /\ fn_out # NotReturned

\* the non-empty tokens of a text, in order
Tokens(text) == SelectSeq(Split(FilterWhitespace(text), ","), LAMBDA t : t # <<>>)

\* the expanded token stream: what the tokens contribute, one after the other
PortStream(text) == PortTokens(Split(FilterWhitespace(text), ",")).v
HostStream(text) == HostTokens(Split(FilterWhitespace(text), ",")).v

\* C11: for every input, ports_parse and addresses_parse return a sequence
\* without duplicates whose elements are ordered by their first occurrence
\* in the expanded token stream.
C11_ParsersDedupFirstOccurrence ==
    /\ PortsParseReturned => FirstSeenOrder(fn_out.v, PortStream(fn_in.arg))
    /\ AddressesParseReturned => FirstSeenOrder(fn_out.v, HostStream(fn_in.arg))

\* C11 witness: "1,0-2" (the shape of "80,79-81") gave [1, 0, 2].
C11_Witness ==
    /\ PortsParseReturned
    /\ fn_in.arg = <<"1", ",", "0", "-", "2">>
    /\ PortStream(fn_in.arg) = <<1, 0, 1, 2>>
    /\ fn_out.v = <<1, 0, 2>>

\* C11 witness, hosts: "2,c" gave [2, 1]: the block's second address was there.
C11_WitnessHosts ==
    /\ AddressesParseReturned
    /\ fn_in.arg = <<"2", ",", "c">>
    /\ HostStream(fn_in.arg) = <<2, 1, 2>>
    /\ fn_out.v = <<2, 1>>

\* the ports a, a+1, ..., b in ascending order; none when a > b
Interval(a, b) == [i \in 1..(IF a <= b THEN b - a + 1 ELSE 0) |-> a + i - 1]

\* C12: the token "a-b" contributes exactly a, a+1, ..., b in ascending order
\* when a <= b, and nothing, without error, when a > b; checked for a, b at
\* both ends of the 16-bit range and, through ports_parse, for one-digit a, b.
C12_RangeContributesInterval ==
    /\ (fn_in.fn = "range" /\ fn_out # NotReturned) =>
          \E a, b \in PortSamples :
             /\ fn_in.arg = Decimal(a) \o <<"-">> \o Decimal(b)
             /\ fn_out = Returned(TRUE, Interval(a, b), <<>>)
             /\ \A i \in 1..Len(fn_out.v) : fn_out.v[i] \in 0..U16_MAX
    /\ \A a, b \in 0..2 :
          (fn_in.fn = "ports_parse" /\ fn_out # NotReturned
             /\ fn_in.arg = <<DigitChar(a), "-", DigitChar(b)>>) =>
                fn_out = Returned(TRUE, Interval(a, b), <<>>)

\* C12 witness: "0-65535" contributed all 65536 ports, 0 first and 65535 last.
C12_Witness ==
    /\ fn_in.fn = "range" /\ fn_out # NotReturned
    /\ fn_in.arg = <<"0", "-", "6", "5", "5", "3", "5">>
    /\ fn_out.ok /\ Len(fn_out.v) = 65536
    /\ fn_out.v[1] = 0 /\ fn_out.v[65536] = 65535

\* C12 witness, a > b: "65535-0" contributed nothing and did not panic.
C12_WitnessDescending ==
    /\ fn_in.fn = "range" /\ fn_out # NotReturned
    /\ fn_in.arg = <<"6", "5", "5", "3", "5", "-", "0">>
    /\ fn_out.ok /\ fn_out.v = <<>>

\* C12 witness, a = b: "2-2" given to ports_parse returned [2].
C12_WitnessSingle ==
    /\ PortsParseReturned
    /\ fn_in.arg = <<"2", "-", "2">> /\ fn_out.v = <<2>>

\* the text holds a non-empty token with more than one '-'
HasManyDashes(text) ==
    \E i \in 1..Len(Tokens(text)) : Count(Tokens(text)[i], "-") > 1

\* the text with its empty tokens left out: no leading, trailing or doubled comma
RECURSIVE JoinTokens(_)
JoinTokens(toks) ==
    IF toks = <<>> THEN <<>>
    ELSE IF Len(toks) = 1 THEN toks[1]
    ELSE Head(toks) \o <<",">> \o JoinTokens(Tail(toks))

\* C13: ports_parse fails fatally on a text holding a non-empty token with
\* more than one '-'; the failure aborts the enclosing set_targets or
\* add_targets call so that the Scanner is not modified.
C13_ParseFailureLeavesScanner ==
    [][ \A a \in HostSpecs, p \in PortSpecs :
           (HasManyDashes(p) /\ (set_targets(a, p) \/ add_targets(a, p))) =>
               /\ pc' = "panicked"
               /\ UNCHANGED <<ips, ports, config, last_results>>
      ]_vars

\* C13, the part about ports_parse alone: a token with more than one '-' is
\* fatal, and empty tokens change nothing: the text without them gives the
\* same result.
C13_ManyDashesFatalEmptyTokensSkipped ==
    (fn_in.fn = "ports_parse" /\ fn_out # NotReturned) =>
        /\ HasManyDashes(fn_in.arg) => ~fn_out.ok
        /\ ports_parse(JoinTokens(Tokens(fn_in.arg))) = [ok |-> fn_out.ok, v |-> fn_out.v]

\* C13 witness of the part about ports_parse alone: ",,1,,2,," returned [1, 2].
C13_WitnessEmptyTokens ==
    /\ PortsParseReturned
    /\ fn_in.arg = <<",", ",", "1", ",", ",", "2", ",", ",">>
    /\ fn_out.v = <<1, 2>>

\* the token is a name the platform resolver knows; ResolverSet is the
\* sequence of addresses a resolver maps a name to
IsPlatformName(tok) == ~CidrOf(tok).ok /\ ~ToSocketAddrs(tok).ok /\ ToSocketAddrs(tok \o <<":80">>).ok
IsFallbackName(tok) ==
    ~CidrOf(tok).ok /\ ~ToSocketAddrs(tok).ok /\ ~IsPlatformName(tok) /\ LookupIp(tok).ok
ResolverSet(tok) ==
    IF IsPlatformName(tok) THEN ToSocketAddrs(tok \o <<":80">>).v ELSE LookupIp(tok).v

\* steps 1 to 3 of the host grammar: CIDR block, literal address or
\* address:port, DNS name with every address retained
Steps123(tok) ==
    IF CidrOf(tok).ok THEN CidrOf(tok).v
    ELSE IF ToSocketAddrs(tok).ok THEN ToSocketAddrs(tok).v
    ELSE IF IsPlatformName(tok) \/ IsFallbackName(tok) THEN ResolverSet(tok)
    ELSE <<>>

RECURSIVE LinesSteps123(_)
LinesSteps123(lines) ==
    IF lines = <<>> THEN <<>> ELSE Steps123(Head(lines)) \o LinesSteps123(Tail(lines))

\* steps 1 to 4, first success wins
Resolved(tok) ==
    IF Steps123(tok) # <<>> THEN Steps123(tok)
    ELSE IF IsFile(tok) /\ FileOpens(tok) THEN LinesSteps123(FileLines(tok))
    ELSE <<>>

\* C14: a host token is resolved as a CIDR block, else as a literal address,
\* else as a DNS name, else as a file, the first success winning; a DNS name
\* the resolver maps to the addresses A contributes every address of A.
C14_NameContributesEveryAddress ==
    (AddressesParseReturned /\ Len(Tokens(fn_in.arg)) = 1) =>
        fn_out.v = Unique(Resolved(Tokens(fn_in.arg)[1]))

\* C14 without the names of the platform resolver: every other token
\* contributes what the first successful step gives.
C14_OrderForOtherTokens ==
    (AddressesParseReturned /\ Len(Tokens(fn_in.arg)) = 1
       /\ ~IsPlatformName(Tokens(fn_in.arg)[1])) =>
        fn_out.v = Unique(Resolved(Tokens(fn_in.arg)[1]))

\* C14, the fallback resolver: the name "m" contributed both its addresses.
C14_WitnessFallbackName ==
    /\ AddressesParseReturned /\ fn_in.arg = <<"m">>
    /\ fn_out.v = <<1, 2>>

\* C14, the platform resolver: the name "n" maps to [2, 1] and contributed [2].
C14_WitnessPlatformName ==
    /\ AddressesParseReturned /\ fn_in.arg = <<"n">>
    /\ ResolverSet(<<"n">>) = <<2, 1>> /\ fn_out.v = <<2>>

\* the token is neither a CIDR block, a literal address, a resolvable name
\* nor a readable file
IsUnknown(tok) == Steps123(tok) = <<>> /\ ~(IsFile(tok) /\ FileOpens(tok))

KnownTokens(text) == SelectSeq(Tokens(text), LAMBDA t : ~IsUnknown(t))
UnknownTokens(text) == SelectSeq(Tokens(text), IsUnknown)

\* C15: an unknown host token contributes no address, produces exactly one
\* diagnostic and is not fatal: addresses_parse returns, and returns what it
\* returns for the text without the unknown tokens.
C15_UnknownTokenSkipped ==
    AddressesParseReturned =>
        /\ fn_out.ok
        /\ Len(fn_out.out) = Len(UnknownTokens(fn_in.arg))
        /\ \A i \in 1..Len(fn_out.out) :
              /\ fn_out.out[i][1] \in {"Error: not a file", "Error: unknown target"}
              /\ fn_out.out[i][2] = UnknownTokens(fn_in.arg)[i]
        /\ fn_out.v = addresses_parse(JoinTokens(KnownTokens(fn_in.arg))).v
        /\ addresses_parse(JoinTokens(KnownTokens(fn_in.arg))).out = <<>>
        /\ \A i \in 1..Len(Tokens(fn_in.arg)) :
              IsUnknown(Tokens(fn_in.arg)[i]) =>
                  addresses_parse(Tokens(fn_in.arg)[i]).v = <<>>

\* C15 witness: in "2,g,c" the file g cannot be opened: one line names it,
\* and the tokens around it gave [2, 1] as "2,c" does.
C15_Witness ==
    /\ AddressesParseReturned
    /\ fn_in.arg = <<"2", ",", "g", ",", "c">>
    /\ fn_out.out = << <<"Error: unknown target", <<"g">> >> >>
    /\ fn_out.v = <<2, 1>>

\* C15 witness: in "1,x,2" the text x is no file: one line, hosts [1, 2].
C15_WitnessNotAFile ==
    /\ AddressesParseReturned
    /\ fn_in.arg = <<"1", ",", "x", ",", "2">>
    /\ fn_out.out = << <<"Error: not a file", <<"x">> >> >>
    /\ fn_out.v = <<1, 2>>

(***************************************************************************)
(* Properties of the scanner, checked under Spec.                          *)
(***************************************************************************)
\* the text holds no token: it is empty or made of commas and whitespace
EmptyText(text) == Tokens(text) = <<>>

\* C16: an empty host text and an empty port text, also one made only of
\* commas, yield empty sequences without error; scan_tcp_connect on a scanner
\* whose hosts or ports are empty submits no probe, does not fail, and
\* returns with last_results an empty, present sequence.
C16_EmptySpecsAndEmptyScan ==
    [][ /\ \A a \in HostSpecs, p \in PortSpecs :
              set_targets(a, p) =>
                 /\ EmptyText(a) => ips' = <<>> /\ stdout' = <<>>
                 /\ EmptyText(p) => ports' = <<>> /\ pc' = "idle"
        /\ (ips' = <<>> \/ ports' = <<>>) =>
              /\ pc' \in ScanPcs =>
                    /\ pc' \in {"fill", "loop"}
                    /\ ftrs' = {} /\ sock_it' = 0 /\ sock_res' = <<>> /\ delivered' = <<>>
              /\ pc \in ScanPcs => pc' \in {"loop", "done"}
              /\ pc' = "done" =>
                    /\ last_results' = Some(<<>>)
                    /\ sock_it' = 0 /\ delivered' = <<>> /\ fatal' = <<>>
      ]_vars

\* C16 witness: a scanner with a host and no port was scanned: the scan has
\* returned and last_results is Some([]).
C16_Witness ==
    /\ pc = "done" /\ ips # <<>> /\ ports = <<>> /\ batch >= 1
    /\ last_results = Some(<<>>) /\ sock_it = 0

\* C16 witness: no host, one port.
C16_WitnessNoHost ==
    /\ pc = "done" /\ ips = <<>> /\ ports # <<>> /\ batch >= 1
    /\ last_results = Some(<<>>) /\ sock_it = 0

\* C17: set_ntries(n) leaves tries = max(n, 1), so set_ntries(0) gives
\* tries = 1; with tries = 1 a probe is on its first attempt, and that attempt
\* failing ends the probe Closed: exactly one connect attempt was made.
C17_NtriesAtLeastOne ==
    [][ /\ \A n \in 0..MaxTries :
              set_ntries(n) =>
                 /\ tries' = (IF n >= 1 THEN n ELSE 1)
                 /\ n = 0 => tries' = 1
        /\ tries = 1 =>
              \A p \in ftrs :
                 /\ p.ntry = 0
                 /\ ConnectElapsed(p) =>
                       /\ pc' = "refill" /\ p \notin ftrs'
                       /\ result'.tag = "Err" /\ result'.sock = p.sock
                 /\ \A e \in IoErrors \ FdExhaustionTexts :
                       ConnectIoError(p, e) =>
                          /\ pc' = "refill" /\ p \notin ftrs'
                          /\ result'.tag = "Err" /\ result'.sock = p.sock
      ]_vars

\* C17 witness: with tries = 1 after one configuration call, the only probe
\* of the scan has ended Closed on the first completion delivered.
C17_Witness ==
    /\ pc = "done" /\ tries = 1 /\ calls = 2
    /\ Len(delivered) = 1 /\ delivered[1].tag = "Err"
    /\ last_results.v = <<[target |-> SockAt(ips, ports, 0), state |-> "Close"]>>

Elems(s) == {s[i] : i \in 1..Len(s)}

\* add_targets or add_vec_targets is called with hosts and ports that are
\* all present already
AddsNothingNew ==
    \/ \E h \in SeqsUpTo(Hosts, MaxVecLen), p \in SeqsUpTo(PortArgs, MaxVecLen) :
          /\ add_vec_targets(h, p)
          /\ Elems(h) \subseteq Elems(ips) /\ Elems(p) \subseteq Elems(ports)
    \/ \E a \in HostSpecs, p \in PortSpecs :
          /\ add_targets(a, p)
          /\ ports_parse(p).ok
          /\ Elems(addresses_parse(a).v) \subseteq Elems(ips)
          /\ Elems(ports_parse(p).v) \subseteq Elems(ports)

\* C18: in every reachable scanner state, add_targets and add_vec_targets
\* called with hosts and ports that are all present already leave the hosts
\* and the ports sequences exactly as they were.
C18_AddPresentIsNoOp ==
    [][ AddsNothingNew => (ips' = ips /\ ports' = ports) ]_vars

\* C18 for the scanner states without duplicates: there the call is a no-op.
C18_AddPresentIsNoOpWithoutDuplicates ==
    [][ (AddsNothingNew /\ NoDup(ips) /\ NoDup(ports)) => (ips' = ips /\ ports' = ports)
      ]_vars

\* the fields of the scanner
Fields == <<ips, ports, scan_type, print_mode, batch, to, tries, last_results>>

Mutators ==
    { "set_batch", "set_timeout_ms", "set_ntries", "set_print_mode", "set_scan_type",
      "set_targets", "set_vec_targets", "add_targets", "add_vec_targets" }

\* C19: calling a mutator twice in a row with the same argument leaves the
\* scanner (hosts, ports, mode, print_mode, batch, timeout, tries,
\* last_results) in the state the first call left.
C19_MutatorsIdempotent ==
    [][ (calls' = calls + 1 /\ last_call'.fn \in Mutators /\ last_call'.again) =>
            Fields' = Fields
      ]_vars

\* C19 witness: add_targets("2, 1", "1") was called twice in a row on a
\* scanner that held neither the hosts nor the port.
C19_Witness ==
    /\ pc = "idle" /\ calls = 2
    /\ last_call = [fn |-> "add_targets", with |-> << <<"2", ",", " ", "1">>, <<"1">> >>,
                    again |-> TRUE]
    /\ ips = <<2, 1>> /\ ports = <<1>>

\* C19 witness: add_vec_targets([1, 2], [1]) was called twice in a row.
C19_WitnessVec ==
    /\ pc = "idle" /\ calls = 2
    /\ last_call = [fn |-> "add_vec_targets", with |-> << <<1, 2>>, <<1>> >>, again |-> TRUE]
    /\ ips = <<1, 2>> /\ ports = <<1>>

(***************************************************************************)
(* The round trip of ports_parse, checked under SpecExpander.              *)
(***************************************************************************)
\* C20: for every port text x on which ports_parse succeeds, writing
\* ports_parse(x) out as comma-separated decimal literals and parsing that
\* text returns the same sequence.
C20_RenderRoundTrip ==
    (fn_in.fn = "ports_parse" /\ fn_in.rendered) =>
        /\ fn_in.arg = Render(fn_in.from)
        /\ fn_out # NotReturned => fn_out = Returned(TRUE, fn_in.from, <<>>)

\* C20 witness: [1, 0, 2] (from "1,0-2") was written as "1,0,2", which gave
\* [1, 0, 2] again.
C20_Witness ==
    /\ fn_in.fn = "ports_parse" /\ fn_in.rendered /\ fn_out # NotReturned
    /\ fn_in.from = <<1, 0, 2>>
    /\ fn_in.arg = <<"1", ",", "0", ",", "2">>
    /\ fn_out.v = <<1, 0, 2>>

\* C20 witness: a range of 23 ports, with two-digit literals, came back.
C20_WitnessLong ==
    /\ fn_in.fn = "ports_parse" /\ fn_in.rendered /\ fn_out # NotReturned
    /\ Len(fn_in.from) = 23 /\ fn_in.from[23] = 22
    /\ fn_out.v = fn_in.from

\* C20 witness: the empty list was written as the empty text.
C20_WitnessEmpty ==
    /\ fn_in.fn = "ports_parse" /\ fn_in.rendered /\ fn_out # NotReturned
    /\ fn_in.from = <<>> /\ fn_in.arg = <<>> /\ fn_out.v = <<>>

(***************************************************************************)
(* The command-line driver qsc (src/qsc/src/main.rs): main builds the      *)
(* scanner from the command line, configures it and runs the scans of the  *)
(* chosen mode, one library call after the other.  --json is not given.    *)
(***************************************************************************)

\* bounds of the command lines tried
MaxPrintLevel == 5
MaxMode == 3

DriverHostSpecs == { <<"1">>, <<"2", ",", " ", "1">> }
DriverPortSpecs == { <<"1">>, <<"1", "-", "2">>, <<"1", "-", "2", "-", "1">> }

\* struct Args after Args::parse()
ArgsSet ==
    [ targets : DriverHostSpecs, ports : DriverPortSpecs,
      batch : 1..MaxBatch, timeout : 0..MaxTimeoutMs,
      tcp_tries : 1..MaxTries, ping_tries : {1},
      printlevel : 0..MaxPrintLevel, mode : 0..MaxMode ]

\* main up to "let mut scanner = QScanner::new(&args.targets, &args.ports)"
DriverInit ==
    /\ args \in ArgsSet
    /\ new(args.targets, args.ports)
    /\ dpc = "set_batch"
    /\ ping_res = None
    /\ fn_in = NoCall /\ fn_out = NotReturned /\ prod = NoProd /\ net = NoNet

\* a panic of the driver's own code
DriverPanic(text) ==
    /\ pc \in {"idle", "done"}
    /\ pc' = "panicked"
    /\ fatal' = text
    /\ dpc' = "aborted"
    /\ UNCHANGED <<expander, last_call, ips, ports, config, last_results, frame,
                   stdout, calls, args, ping_res>>

\* scanner.set_batch(batch);
DriverSetBatch ==
    /\ dpc = "set_batch"
    /\ set_batch(args.batch)
    /\ dpc' = "set_timeout_ms"
    /\ UNCHANGED <<args, ping_res>>

\* scanner.set_timeout_ms(timeout);
DriverSetTimeoutMs ==
    /\ dpc = "set_timeout_ms"
    /\ set_timeout_ms(args.timeout)
    /\ dpc' = "match_mode"
    /\ UNCHANGED <<args, ping_res>>

\* match args.mode: the arm taken, up to its first library call
DriverMatchMode ==
    /\ dpc = "match_mode"
    /\ CASE args.mode = 0 ->
              /\ pc \in {"idle", "done"}
              /\ dpc' = "tcp_set_scan_type"
              /\ UNCHANGED <<scanner, expander>>
         [] args.mode = 1 ->
              /\ pc \in {"idle", "done"}
              /\ dpc' = "ping_set_print_level"
              /\ UNCHANGED <<scanner, expander>>
         [] args.mode = 2 ->
              /\ set_print_mode("NonRealTime")
              /\ dpc' = "ping_set_scan_type"
         [] OTHER ->
              DriverPanic(<<"Unknown", "scan", "mode">>)
    /\ UNCHANGED <<args, ping_res>>

\* fn set_print_level(scanner, args), then the driver goes on at after
set_print_level(after) ==
    CASE args.printlevel \in {1, 2} -> set_print_mode("NonRealTime") /\ dpc' = after
      [] args.printlevel = 3 -> set_print_mode("RealTime") /\ dpc' = after
      [] args.printlevel = 4 -> set_print_mode("RealTimeAll") /\ dpc' = after
      [] OTHER -> DriverPanic(<<"Unknown", "print", "mode">>)

\* the positions of do_tcp_connect_scan_and_print
TcpPhase == {"tcp_set_scan_type", "tcp_set_ntries", "tcp_set_print_level",
             "scan_tcp_connect", "scanning"}

\* scanner.set_scan_type(QScanType::TcpConnect) of do_tcp_connect_scan_and_print,
\* scanner.set_scan_type(QScanType::Ping) of do_ping_scan
DriverSetScanType ==
    /\ dpc \in {"tcp_set_scan_type", "ping_set_scan_type"}
    /\ IF dpc = "tcp_set_scan_type"
       THEN set_scan_type("TcpConnect") /\ dpc' = "tcp_set_ntries"
       ELSE set_scan_type("Ping") /\ dpc' = "ping_set_ntries"
    /\ UNCHANGED <<args, ping_res>>

\* scanner.set_ntries(args.tcp_tries), scanner.set_ntries(args.ping_tries)
DriverSetNtries ==
    /\ dpc \in {"tcp_set_ntries", "ping_set_ntries"}
    /\ IF dpc = "tcp_set_ntries"
       THEN set_ntries(args.tcp_tries) /\ dpc' = "tcp_set_print_level"
       ELSE set_ntries(args.ping_tries) /\ dpc' = "set_ping_interval_ms"
    /\ UNCHANGED <<args, ping_res>>

\* set_print_level(scanner, args) of do_tcp_connect_scan_and_print and of
\* do_ping_scan_and_print
DriverSetPrintLevel ==
    /\ dpc \in {"tcp_set_print_level", "ping_set_print_level"}
    /\ set_print_level(IF dpc = "tcp_set_print_level" THEN "scan_tcp_connect"
                       ELSE "ping_set_scan_type")
    /\ UNCHANGED <<args, ping_res>>

\* scanner.scan_tcp_connect() is called
DriverScanTcpConnect ==
    /\ dpc = "scan_tcp_connect"
    /\ ScanStart
    /\ dpc' = "scanning"
    /\ UNCHANGED <<args, ping_res>>

\* the lines the loop over res prints for the result r
EndLine(printlevel, r) ==
    IF r.state = "Open"
    THEN IF printlevel = 1 THEN << <<r.target[1], r.target[2]>> >>
         ELSE << <<r.target[1], r.target[2], "OPEN">> >>
    ELSE IF printlevel = 2 THEN << <<r.target[1], r.target[2], "CLOSED">> >>
         ELSE <<>>

RECURSIVE EndLinesOf(_, _)
EndLinesOf(printlevel, res) ==
    IF res = <<>> THEN <<>>
    ELSE EndLine(printlevel, Head(res)) \o EndLinesOf(printlevel, Tail(res))

\* what do_tcp_connect_scan_and_print prints after the scan
EndLines(printlevel, res) ==
    IF (printlevel = 0) /\ (printlevel = 1 \/ printlevel = 2)
    THEN EndLinesOf(printlevel, res)
    ELSE <<>>

\* block_on(scanner.scan_tcp_connect()) has returned: the loop over res, then
\* main ends (jf is None)
DriverTcpPrint ==
    /\ dpc = "scanning"
    /\ pc = "done"
    /\ stdout' = stdout \o EndLines(args.printlevel, last_results.v)
    /\ dpc' = "exit"
    /\ UNCHANGED <<expander, last_call, ips, ports, config, last_results, pc, frame,
                   fatal, calls, args, ping_res>>

\* The ping methods main.rs calls are not part of the library sources at
\* hand; they follow the description of the liveness scan: one result
\* {target, state: Up | Down} for each host, accumulated in completion order,
\* and the hosts with state Up replace hosts before the TCP phase.

\* scanner.set_ping_interval_ms(args.ping_interval): the interval is no part
\* of the state
set_ping_interval_ms ==
    /\ CanCall /\ Called
    /\ last_call' = Call("set_ping_interval_ms", <<>>)
    /\ pc' = "idle" /\ stdout' = <<>>
    /\ UNCHANGED <<ips, ports, config, last_results, fatal>>

\* the orders the probes of n hosts can complete in
Orders(n) == { f \in [1..n -> 1..n] : \A i, j \in 1..n : f[i] = f[j] => i = j }

\* the results of a ping scan of hosts: one for each host, in a completion order
PingResults(hosts) ==
    { [ i \in 1..Len(hosts) |-> [target |-> hosts[o[i]], state |-> st[i]] ] :
        o \in Orders(Len(hosts)), st \in [1..Len(hosts) -> {"Up", "Down"}] }

\* scanner.scan_ping() from its call to its return
scan_ping(res) ==
    /\ CanCall /\ Called
    /\ last_call' = Call("scan_ping", <<>>)
    /\ last_results' = Some(res)
    /\ pc' = "done" /\ stdout' = <<>>
    /\ UNCHANGED <<ips, ports, config, fatal>>

\* scanner.set_vec_targets_addr(addrs): addrs replace hosts
set_vec_targets_addr(addrs) ==
    /\ CanCall /\ Called
    /\ last_call' = Call("set_vec_targets_addr", <<addrs>>)
    /\ ips' = addrs
    /\ pc' = "idle" /\ stdout' = <<>>
    /\ UNCHANGED <<ports, config, last_results, fatal>>

DriverSetPingIntervalMs ==
    /\ dpc = "set_ping_interval_ms"
    /\ set_ping_interval_ms
    /\ dpc' = "scan_ping"
    /\ UNCHANGED <<args, ping_res>>

\* block_on(scanner.scan_ping()) of do_ping_scan
DriverScanPing ==
    /\ dpc = "scan_ping"
    /\ \E res \in PingResults(ips) :
          /\ scan_ping(res)
          /\ ping_res' = Some(res)
    /\ dpc' = IF args.mode = 1 THEN "ping_print" ELSE "set_vec_targets_addr"
    /\ UNCHANGED args

\* the lines the loop over res of do_ping_scan_and_print prints for r
PingEndLine(printlevel, r) ==
    IF r.state = "Up"
    THEN IF printlevel = 1 THEN << <<r.target>> >>
         ELSE << <<r.target, "UP">> >>
    ELSE IF printlevel = 2 THEN << <<r.target, "DOWN">> >>
         ELSE <<>>

RECURSIVE PingEndLinesOf(_, _)
PingEndLinesOf(printlevel, res) ==
    IF res = <<>> THEN <<>>
    ELSE PingEndLine(printlevel, Head(res)) \o PingEndLinesOf(printlevel, Tail(res))

PingEndLines(printlevel, res) ==
    IF (printlevel = 0) /\ (printlevel = 1 \/ printlevel = 2)
    THEN PingEndLinesOf(printlevel, res)
    ELSE <<>>

\* do_ping_scan has returned to do_ping_scan_and_print: the loop over res,
\* then main ends
DriverPingPrint ==
    /\ dpc = "ping_print"
    /\ stdout' = stdout \o PingEndLines(args.printlevel, last_results.v)
    /\ dpc' = "exit"
    /\ UNCHANGED <<expander, last_call, ips, ports, config, last_results, pc, frame,
                   fatal, calls, args, ping_res>>

\* mutant: the loop pushes the target of every result, Up or Down
IpsUp_IgnoresState(res) == [ i \in 1..Len(res) |-> res[i].target ]

\* the loop of mode 2 that collects the targets of the Up results
RECURSIVE IpsUp(_)
IpsUp(res) ==
    IF res = <<>> THEN <<>>
    ELSE (IF Head(res).state = "Up" THEN <<Head(res).target>> ELSE <<>>)
         \o IpsUp(Tail(res))

\* mode 2: ips_up is collected from res, scanner.set_vec_targets_addr(ips_up)
DriverSetVecTargetsAddr ==
    /\ dpc = "set_vec_targets_addr"
    /\ set_vec_targets_addr(IpsUp(last_results.v))
    /\ dpc' = "tcp_set_scan_type"
    /\ UNCHANGED <<args, ping_res>>

DriverNext ==
    \/ DriverSetBatch
    \/ DriverSetTimeoutMs
    \/ DriverMatchMode
    \/ DriverSetScanType
    \/ DriverSetNtries
    \/ DriverSetPrintLevel
    \/ DriverSetPingIntervalMs
    \/ DriverScanPing
    \/ DriverPingPrint
    \/ DriverSetVecTargetsAddr
    \/ DriverScanTcpConnect
    \/ FillPush /\ UNCHANGED driver
    \/ FillEnd /\ UNCHANGED driver
    \/ (\E p \in ftrs : ConnectStream(p))
          /\ UNCHANGED driver
    \/ (\E p \in ftrs, e \in IoErrors : ConnectIoError(p, e))
          /\ UNCHANGED driver
    \/ (\E p \in ftrs : ConnectElapsed(p))
          /\ UNCHANGED driver
    \/ (\E p \in ftrs, is_err \in BOOLEAN : Shutdown(p, is_err))
          /\ UNCHANGED driver
    \/ Refill /\ UNCHANGED driver
    \/ Classify /\ UNCHANGED driver
    \/ ScanReturn /\ UNCHANGED driver
    \/ DriverTcpPrint

SpecDriver == DriverInit /\ [][DriverNext]_vars

(***************************************************************************)
(* Properties of the driver, checked under SpecDriver                      *)
(***************************************************************************)

\* the print mode the module documentation of main.rs gives a print level
DocumentedPrintMode(printlevel) ==
    CASE printlevel \in {1, 2} -> "NonRealTime"
      [] printlevel = 3 -> "RealTime"
      [] printlevel = 4 -> "RealTimeAll"
      [] OTHER -> "None"

\* C21: with a documented scan mode, no documented --printlevel value (0..4)
\* aborts the driver: the driver's own code never panics, and when the TCP
\* connect scan is called the scanner's print mode is the documented one
\* (levels 1..4; level 0 has no print mode of the library to compare with)
C21_DocumentedPrintLevelsRun ==
    (args.mode \in 0..2 /\ args.printlevel \in 0..4) =>
        /\ dpc # "aborted"
        /\ (dpc = "scanning" /\ args.printlevel # 0) =>
              print_mode = DocumentedPrintMode(args.printlevel)

\* C21, the part that holds: the levels 1..4 select the documented print mode
\* and do not abort the driver
C21_LevelsOneToFourRun ==
    (args.mode \in 0..2 /\ args.printlevel \in 1..4) =>
        /\ dpc # "aborted"
        /\ dpc = "scanning" => print_mode = DocumentedPrintMode(args.printlevel)

C21_WitnessLevelFour ==
    /\ args.mode = 0 /\ args.printlevel = 4
    /\ dpc = "exit" /\ Len(last_results.v) = 2

\* the results of res that are Open
OpenOnly(res) == SelectSeq(res, LAMBDA r : r.state = "Open")

\* the lines the module documentation of main.rs promises at the end of a TCP
\* connect scan: level 1 ip:port for the open ports, level 2
\* ip:port:OPEN or ip:port:CLOSED for every result, in result order
DocumentedEndLines(printlevel, res) ==
    IF printlevel = 1
    THEN [ i \in 1..Len(OpenOnly(res)) |->
             <<OpenOnly(res)[i].target[1], OpenOnly(res)[i].target[2]>> ]
    ELSE [ i \in 1..Len(res) |->
             <<res[i].target[1], res[i].target[2],
               IF res[i].state = "Open" THEN "OPEN" ELSE "CLOSED">> ]

\* C22: when the driver has run a TCP connect scan with --printlevel 1 or 2,
\* the console holds, after the driver's end-of-scan printing, exactly the
\* documented lines: nothing during the scan, then one line for each Open
\* result (level 1) or one line for every result (level 2), in result order
C22_EndOfScanLines ==
    (dpc = "exit" /\ args.mode \in {0, 2} /\ args.printlevel \in {1, 2}) =>
        stdout = DocumentedEndLines(args.printlevel, last_results.v)

\* C22, the part that holds: with levels 1 and 2 nothing is printed while the
\* scan runs
C22_NothingDuringScan ==
    (dpc = "scanning" /\ args.printlevel \in {1, 2}) => stdout = <<>>

\* the hosts of the results of res whose state is Up, in the order of res
UpHosts(res) ==
    LET up == SelectSeq(res, LAMBDA r : r.state = "Up")
    IN  [ i \in 1..Len(up) |-> up[i].target ]

DownHosts(res) == { res[i].target : i \in { j \in 1..Len(res) : res[j].state = "Down" } }

\* C23: in mode 2, at every position of the TCP connect phase and after it,
\* the ping scan has returned, hosts is the sequence of the hosts whose ping
\* result is Up in ping-result order, no host whose result is Down is in it,
\* ports is still what the command line gave, and no TCP connect result is
\* for a host outside the Up hosts
C23_TcpPhaseScansUpHosts ==
    (args.mode = 2 /\ dpc \in TcpPhase \cup {"exit", "aborted"}) =>
        /\ ping_res.ok
        /\ ips = UpHosts(ping_res.v)
        /\ \A h \in DownHosts(ping_res.v) : \A i \in 1..Len(ips) : ips[i] # h
        /\ ports = ports_parse(args.ports).v
        /\ \A p \in ftrs : p.sock[1] \in { ips[i] : i \in 1..Len(ips) }
        /\ dpc = "exit" =>
              \A i \in 1..Len(last_results.v) :
                  last_results.v[i].target[1] \notin DownHosts(ping_res.v)

\* C23: in mode 2 no probe of the TCP connect scan exists before the ping
\* scan has returned
C23_NoTcpBeforePing ==
    (args.mode = 2 /\ ~ping_res.ok) =>
        /\ pc \in {"idle", "panicked"}
        /\ ftrs = {}
        /\ last_call.fn # "scan_tcp_connect"

\* one host Up and one Down: the TCP phase has scanned both ports of the Up host
C23_Witness ==
    /\ args.mode = 2 /\ dpc = "exit"
    /\ Len(ping_res.v) = 2
    /\ ping_res.v[1].state = "Down" /\ ping_res.v[2].state = "Up"
    /\ Len(last_results.v) = 2
    /\ ips = <<ping_res.v[2].target>>

\* both hosts Up, the ping results in the other order than the command line
C23_WitnessOrder ==
    /\ args.mode = 2 /\ dpc = "exit"
    /\ addresses_parse(args.targets).v = <<2, 1>>
    /\ ips = <<1, 2>>
    /\ Len(last_results.v) = 4

(***************************************************************************)
(* Properties of the probe (scan_socket_tcp_connect), checked under Spec   *)
(***************************************************************************)

\* the attempt a probe is making: ntry counts from 0
Attempt(p) == p.ntry + 1

\* C24: every probe in flight is making an attempt between 1 and tries; and
\* when a step ends the connect attempt of a probe p without a panic, either
\* the connect succeeded (p awaits its shutdown, same attempt), or fewer than
\* tries attempts have been made and p makes the next attempt with nothing
\* else changed, or exactly tries attempts have been made and p ends Closed
\* (an Err result for its endpoint); the step is the same whether the attempt
\* ended by an io error or by the timeout
C24_RetryUntilTries ==
    /\ [](\A p \in ftrs : Attempt(p) \in 1..tries)
    /\ [][ \A p \in ftrs :
             (p.st = "connect" /\ p \notin ftrs' /\ pc' # "panicked") =>
                \/ /\ ftrs' = (ftrs \ {p}) \cup {[p EXCEPT !.st = "shutdown"]}
                   /\ pc' = pc /\ result' = result
                \/ /\ Attempt(p) < tries
                   /\ ftrs' = (ftrs \ {p}) \cup {[p EXCEPT !.ntry = p.ntry + 1]}
                   /\ pc' = pc /\ result' = result
                \/ /\ Attempt(p) = tries
                   /\ ftrs' = ftrs \ {p}
                   /\ result'.tag = "Err" /\ result'.sock = p.sock
                   /\ ResultFor(result').state = "Close" ]_vars

\* a probe is at its second and last attempt: its first attempt has failed
C24_Witness ==
    /\ tries = 2 /\ pc = "loop"
    /\ \E p \in ftrs : p.st = "connect" /\ Attempt(p) = 2

\* a probe has ended Closed by the timeout of its second attempt
C24_WitnessClosed ==
    /\ tries = 2 /\ pc = "refill"
    /\ result.tag = "Err" /\ result.msg = ElapsedText \o <<result.sock[1]>>

\* C25: a probe whose connect attempt has succeeded (it awaits the shutdown of
\* its stream) makes no further attempt, whatever the attempt's number: the
\* step that takes it out of that state ends it, Open (Ok) or Closed with
\* "Shutdown error"; and a result is Open only by such a step
C25_SuccessEndsProbe ==
    [][ /\ \A p \in ftrs :
             (p.st = "shutdown" /\ p \notin ftrs') =>
                /\ ftrs' = ftrs \ {p}
                /\ result' \in { OkResult(p.sock),
                                ErrResult(p.sock, <<"Shutdown", "error">>) }
        /\ (result'.tag = "Ok" /\ result' # result) =>
              \E p \in ftrs :
                 /\ p.st = "shutdown"
                 /\ ftrs' = ftrs \ {p}
                 /\ result' = OkResult(p.sock) ]_vars

\* the first of two attempts has succeeded: the probe awaits its shutdown
C25_Witness ==
    /\ tries = 2 /\ pc = "loop"
    /\ \E p \in ftrs : p.st = "shutdown" /\ Attempt(p) = 1

\* a probe has ended Closed by a failed shutdown although tries = 2
C25_WitnessShutdownError ==
    /\ tries = 2 /\ pc = "refill"
    /\ result = ErrResult(result.sock, <<"Shutdown", "error">>)

\* a probe has ended Open while tries = 2
C25_WitnessOpen ==
    /\ tries = 2 /\ pc = "refill"
    /\ result.tag = "Ok"

(***************************************************************************)
(* Properties of the refill discipline of scan_tcp_connect, under Spec     *)
(***************************************************************************)

Min(a, b) == IF a < b THEN a ELSE b

\* the probes of the step's next state that were not in flight before it
Submitted == { q \in ftrs' : \A p \in ftrs : p.id # q.id }

\* C26: (1) when the initial fill ends, min(batch, |hosts| * |ports|)
\* endpoints have been pulled and are in flight; (2) after the fill the
\* iterator is pulled only by the refill step of a handled completion, by
\* one endpoint, while that completion is neither classified nor appended;
\* (3) a refill step that finds the iterator not exhausted leaves batch probes
\* in flight; (4) every probe submitted is for the endpoint at the cursor:
\* endpoints are submitted in iterator order
C26_OneInOneOut ==
    [][ /\ (pc = "fill" /\ pc' = "loop") =>
              /\ sock_it = Min(batch, SockCount(ips, ports))
              /\ Cardinality(ftrs) = sock_it
        /\ (pc \in {"loop", "refill", "classify"} /\ sock_it' # sock_it) =>
              /\ pc = "refill" /\ pc' = "classify"
              /\ sock_it' = sock_it + 1
              /\ result # NoResult /\ result' = result
              /\ sock_res' = sock_res
        /\ (pc = "refill" /\ pc' = "classify"
               /\ SockIterHasNext(ips, ports, sock_it)) =>
              /\ Cardinality(ftrs') = batch
              /\ Cardinality(Submitted) = 1
        /\ (pc \in {"fill", "loop", "refill", "classify"}) =>
              \A q \in Submitted :
                 /\ q.id = sock_it /\ sock_it' = sock_it + 1
                 /\ q.sock = SockAt(ips, ports, sock_it) ]_vars

\* batch = 1 and two endpoints: the refill step of the first completion has
\* pulled the second endpoint, the first is not yet appended
C26_Witness ==
    /\ pc = "classify" /\ batch = 1 /\ sock_it = 2
    /\ Cardinality(ftrs) = 1
    /\ sock_res = <<>>

\* the same with batch = 2 and four endpoints (reached by the driver)
C26_WitnessBatchTwo ==
    /\ pc = "classify" /\ batch = 2 /\ sock_it = 3
    /\ Cardinality(ftrs) = 2
    /\ sock_res = <<>>

\* a refill step has found the iterator exhausted: one probe less in flight
C26_WitnessExhausted ==
    /\ pc = "classify" /\ batch = 2 /\ sock_it = SockCount(ips, ports)
    /\ Cardinality(ftrs) = 1

(***************************************************************************)
(* The socket iterator on its own: a SockIter is made over the hosts and   *)
(* ports of a scanner and pulled until after its end.  SockIter::next      *)
(* steps the itertools Product of iproduct!(ports, ips): a is the iterator *)
(* over ports, b the one over ips, b_orig its unconsumed clone, a_cur the  *)
(* port in hand.                                                           *)
(***************************************************************************)

\* bounds of the vectors iterated over
MaxIterLen == 3
MaxIterPort == 2

\* the scanner after QScanner::new("", "") and set_vec_targets(hs, ps)
IterInit ==
    /\ ips \in SeqsUpTo(Hosts, MaxIterLen)
    /\ ports \in SeqsUpTo(1..MaxIterPort, MaxIterLen)
    /\ scan_type = "TcpConnect"
    /\ print_mode = "NonRealTime"
    /\ batch = BATCH_DEF
    /\ to = TIMEOUT_DEF
    /\ tries = Max(TRIES_DEF, 1)
    /\ last_results = None
    /\ pc = "idle" /\ fatal = <<>> /\ stdout = <<>>
    /\ NoFrame
    /\ calls = 1
    /\ last_call = [fn |-> "set_vec_targets", with |-> <<ips, ports>>, again |-> FALSE]
    /\ fn_in = NoCall /\ fn_out = NotReturned /\ prod = NoProd /\ net = NoNet
    /\ NoDriver

\* SockIter::new(ips, ports): iproduct!(ports, ips) takes the first port
\* (a_cur = a.next()) and clones the iterator over ips.  a and b count the
\* elements taken from the two iterators, a_cur = 0 stands for None
SockIterNew ==
    /\ prod = NoProd
    /\ prod' = [made |-> TRUE,
                a |-> IF Len(ports) > 0 THEN 1 ELSE 0,
                a_cur |-> IF Len(ports) > 0 THEN 1 ELSE 0,
                b |-> 0,
                yielded |-> <<>>,
                nones |-> 0]
    /\ UNCHANGED <<scanner, fn_in, fn_out, net, driver>>

\* mutant: when b is reset the port in hand is kept
ProductNext_KeepsPort(pr, hs, ps) ==
    LET reset == pr.b >= Len(hs)
        found == ~reset \/ Len(hs) > 0
        b1 == IF reset THEN (IF Len(hs) > 0 THEN 1 ELSE 0) ELSE pr.b + 1
    IN  IF found /\ pr.a_cur # 0
        THEN [pr EXCEPT !.b = b1,
                        !.yielded = Append(@, <<hs[b1], ps[pr.a_cur]>>)]
        ELSE [pr EXCEPT !.b = b1, !.nones = @ + 1]

\* Product::next followed by the map to SocketAddr::new(*ip, *port): the
\* next ip of b; when b is at its end b is reset to b_orig and, if b_orig is
\* not empty, a_cur becomes a.next(); None if there is no ip or no port in hand
ProductNext(pr, hs, ps) ==
    LET reset == pr.b >= Len(hs)
        found == ~reset \/ Len(hs) > 0
        b1 == IF reset THEN (IF Len(hs) > 0 THEN 1 ELSE 0) ELSE pr.b + 1
        a1 == IF reset /\ found /\ pr.a < Len(ps) THEN pr.a + 1 ELSE pr.a
        a_cur1 == IF reset /\ found
                  THEN (IF pr.a < Len(ps) THEN pr.a + 1 ELSE 0)
                  ELSE pr.a_cur
    IN  IF found /\ a_cur1 # 0
        THEN [pr EXCEPT !.a = a1, !.a_cur = a_cur1, !.b = b1,
                        !.yielded = Append(@, <<hs[b1], ps[a_cur1]>>)]
        ELSE [pr EXCEPT !.a = a1, !.a_cur = a_cur1, !.b = b1, !.nones = @ + 1]

\* the pulls made of one iterator: up to two after the last endpoint
MaxPulls(hs, ps) == SockCount(hs, ps) + 2

\* sock_it.next()
SockIterNext ==
    /\ prod # NoProd
    /\ Len(prod.yielded) + prod.nones < MaxPulls(ips, ports)
    /\ prod' = ProductNext(prod, ips, ports)
    /\ UNCHANGED <<scanner, fn_in, fn_out, net, driver>>

IterNext ==
    \/ SockIterNew
    \/ SockIterNext

SpecIter == IterInit /\ [][IterNext]_vars

\* C27: what the iterator over hosts h_1..h_m and ports p_1..p_n has yielded
\* is a prefix of the port-major sequence: the endpoint at position
\* (j-1)*m + i is (h_i, p_j); it yields at most m*n endpoints; it has given
\* end-of-stream only after all m*n of them, so on the first pull if hosts or
\* ports is empty; and its stream is the one the scan's cursor reads
\* (SockAt, SockIterHasNext)
C27_PortMajorOrder ==
    prod # NoProd =>
        LET m == Len(ips)
            n == Len(ports)
            y == prod.yielded
        IN  /\ Len(y) <= m * n
            /\ \A i \in 1..m, j \in 1..n :
                  (j - 1) * m + i <= Len(y) => y[(j - 1) * m + i] = <<ips[i], ports[j]>>
            /\ prod.nones > 0 => Len(y) = m * n
            /\ (m = 0 \/ n = 0) => y = <<>>
            /\ \A k \in 1..Len(y) : y[k] = SockAt(ips, ports, k - 1)
            /\ prod.nones > 0 => ~SockIterHasNext(ips, ports, Len(y))

\* three hosts and two ports: all six endpoints, then end-of-stream twice
C27_Witness ==
    /\ prod # NoProd
    /\ ips = <<2, 1, 2>> /\ ports = <<2, 1>>
    /\ prod.yielded = << <<2, 2>>, <<1, 2>>, <<2, 2>>, <<2, 1>>, <<1, 1>>, <<2, 1>> >>
    /\ prod.nones = 2

\* no host: end-of-stream on the first pull
C27_WitnessNoHost ==
    /\ prod # NoProd
    /\ ips = <<>> /\ ports = <<1, 2>>
    /\ prod.yielded = <<>> /\ prod.nones = 1

\* no port: end-of-stream on the first pull
C27_WitnessNoPort ==
    /\ prod # NoProd
    /\ ips = <<1, 2>> /\ ports = <<>>
    /\ prod.yielded = <<>> /\ prod.nones = 1

(***************************************************************************)
(* Termination of scan_tcp_connect.  block_on drives the scan to its end:  *)
(* the fill loop, the refill, the match and the return run whenever they   *)
(* can; every connect attempt ends (TcpStream::connect is wrapped in       *)
(* timeout(self.to, ..)) and every shutdown ends.                          *)
(***************************************************************************)

\* a step of the scan loop's own code
LoopStep ==
    (FillPush \/ FillEnd \/ Refill \/ Classify \/ ScanReturn) /\ UNCHANGED driver

\* the connect attempt of a probe ends: a stream, an io error or the timeout
AttemptEnds ==
    /\ \E p \in ftrs :
          \/ ConnectStream(p)
          \/ \E e \in IoErrors : ConnectIoError(p, e)
          \/ ConnectElapsed(p)
    /\ UNCHANGED driver

\* the shutdown of a probe's stream ends
ShutdownEnds ==
    (\E p \in ftrs, is_err \in BOOLEAN : Shutdown(p, is_err)) /\ UNCHANGED driver

\* what every one of these steps changes
progress == <<pc, ftrs, fill_i>>

SpecLive ==
    /\ Init /\ [][Next]_vars
    /\ WF_progress(LoopStep)
    /\ WF_progress(AttemptEnds)
    /\ WF_progress(ShutdownEnds)

\* a scan_tcp_connect call is running
Scanning == pc \in {"fill", "loop", "refill", "classify"}

\* C28: a run of scan_tcp_connect in which no probe meets the
\* file-descriptor-exhaustion error (the only panic of a scan) returns
C28_ScanReturns ==
    Scanning ~>
       \/ pc = "done"
       \/ /\ pc = "panicked"
          /\ fatal = <<"Too many open files, reduce batch size", batch>>

\* C28: a scan that has panicked met the file-descriptor-exhaustion error
C28_PanicOnlyByFdExhaustion ==
    (pc = "panicked" /\ last_call.fn = "scan_tcp_connect") =>
        fatal = <<"Too many open files, reduce batch size", batch>>

\* a scan of two endpoints with tries = 2 has returned
C28_Witness ==
    /\ pc = "done" /\ tries = 2
    /\ last_results.ok /\ Len(last_results.v) = 2

\* C29: the unreachable!() after the probe's retry loop is never executed:
\* no scan has panicked with it, tries - 1 is not below zero, and no probe is
\* at an iteration past the last one (ntry = tries - 1)
C29_UnreachableNeverRuns ==
    /\ fatal # <<"unreachable">>
    /\ tries - 1 >= 0
    /\ \A p \in ftrs : p.ntry <= tries - 1

\* tries = 1: the only attempt was refused and the probe returned Err
C29_Witness ==
    /\ tries = 1 /\ pc = "refill"
    /\ result.tag = "Err"
    /\ result.msg = <<"Connection", "refused", "(os", "error", "111)">> \o <<result.sock[1]>>

\* tries = 2: the loop was left by the timeout of the second iteration
C29_WitnessLastTry ==
    /\ tries = 2 /\ pc = "classify"
    /\ result.tag = "Err" /\ result.msg = ElapsedText \o <<result.sock[1]>>

\* C30: a step changes last_results only if it is the return of
\* scan_tcp_connect, which makes it present, or a reset_last_results call,
\* which makes it absent; no configuration or target mutator changes it; and
\* reset_last_results leaves hosts, ports, mode, print_mode, batch, timeout
\* and tries as they are
C30_LastResultsFrame ==
    [][ /\ last_results' # last_results =>
              \/ /\ pc = "loop" /\ pc' = "done"
                 /\ last_call.fn = "scan_tcp_connect" /\ last_call' = last_call
                 /\ last_results'.ok
              \/ /\ calls' = calls + 1 /\ last_call'.fn = "reset_last_results"
                 /\ last_results' = None
        /\ (calls' = calls + 1 /\ last_call'.fn \in Mutators) =>
              last_results' = last_results
        /\ (calls' = calls + 1 /\ last_call'.fn = "reset_last_results") =>
              /\ ~last_results'.ok
              /\ UNCHANGED <<ips, ports, scan_type, print_mode, batch, to, tries>>
      ]_vars

\* the results of the last scan are still there after set_targets has
\* replaced the host they are for
C30_Witness ==
    /\ last_call.fn = "set_targets" /\ pc = "idle"
    /\ last_results.ok /\ Len(last_results.v) > 0
    /\ \A i \in 1..Len(last_results.v) : last_results.v[i].target[1] \notin Elems(ips)
    /\ ips # <<>>

\* reset_last_results has been called on a scanner with hosts and ports
C30_WitnessReset ==
    /\ last_call.fn = "reset_last_results"
    /\ ~last_results.ok
    /\ ips # <<>> /\ ports # <<>> /\ calls = 2

(***************************************************************************)
(* Scans over a network fixed beforehand: the driver (mode 0, the default  *)
(* print level) configures batch and tries and runs scan_tcp_connect, and  *)
(* attempt k to endpoint e ends as net.at[e][k] says: "Stream" (connected, *)
(* shutdown succeeds), "ShutdownErr" (connected, shutdown fails),          *)
(* "Refused" (an io error that is not fd exhaustion) or "Elapsed" (the     *)
(* timeout).  The order in which the probes make progress stays free.      *)
(***************************************************************************)

\* bound: endpoints times tries of the scans tried
MaxAttempts == 4

Answers == {"Stream", "ShutdownErr", "Refused", "Elapsed"}

Refused == <<"Connection", "refused", "(os", "error", "111)">>

\* the command lines tried
DetArgs ==
    { a \in ArgsSet :
        /\ a.mode = 0 /\ a.printlevel = 3
        /\ ports_parse(a.ports).ok
        /\ SockCount(addresses_parse(a.targets).v, ports_parse(a.ports).v) * a.tcp_tries
              <= MaxAttempts }

\* the networks for the endpoints of hs x ps and n attempts each
Nets(hs, ps, n) ==
    { [fixed |-> TRUE, at |-> f] :
        f \in [ {<<hs[i], ps[j]>> : i \in 1..Len(hs), j \in 1..Len(ps)}
                  -> [1..n -> Answers] ] }

DetInit ==
    /\ args \in DetArgs
    /\ new(args.targets, args.ports)
    /\ dpc = "set_batch"
    /\ ping_res = None
    /\ fn_in = NoCall /\ fn_out = NotReturned /\ prod = NoProd
    /\ net \in Nets(ips, ports, args.tcp_tries)

\* what the attempt the probe p is making gives
Answer(p) == net.at[p.sock][p.ntry + 1]

\* tcp_connect(socket).await of a probe ends as the network says
DetConnect ==
    /\ \E p \in ftrs :
          /\ p.st = "connect"
          /\ CASE Answer(p) \in {"Stream", "ShutdownErr"} -> ConnectStream(p)
               [] Answer(p) = "Refused" -> ConnectIoError(p, Refused)
               [] Answer(p) = "Elapsed" -> ConnectElapsed(p)
    /\ UNCHANGED driver

\* x.shutdown().await of a probe ends as the network says
DetShutdown ==
    /\ \E p \in ftrs :
          /\ p.st = "shutdown"
          /\ Shutdown(p, Answer(p) = "ShutdownErr")
    /\ UNCHANGED driver

DetNext ==
    \/ DriverSetBatch
    \/ DriverSetTimeoutMs
    \/ DriverMatchMode
    \/ DriverSetScanType
    \/ DriverSetNtries
    \/ DriverSetPrintLevel
    \/ DriverScanTcpConnect
    \/ FillPush /\ UNCHANGED driver
    \/ FillEnd /\ UNCHANGED driver
    \/ DetConnect
    \/ DetShutdown
    \/ Refill /\ UNCHANGED driver
    \/ Classify /\ UNCHANGED driver
    \/ ScanReturn /\ UNCHANGED driver
    \/ DriverTcpPrint

SpecDet == DetInit /\ [][DetNext]_vars

\* the state the network fixes for the endpoint e: the first attempt among
\* 1..tries that connects decides, Open if its shutdown succeeds
FixedState(e) ==
    LET connects == { k \in 1..tries : net.at[e][k] \in {"Stream", "ShutdownErr"} }
        first == CHOOSE k \in connects : \A l \in connects : k <= l
    IN  IF connects # {} /\ net.at[e][first] = "Stream" THEN "Open" ELSE "Close"

\* how often the iterator over hosts x ports yields e
Yields(e) == Cardinality({ n \in 0..(SockCount(ips, ports) - 1) : SockAt(ips, ports, n) = e })

\* C31: the result vector a scan returns is, up to order, fixed by hosts,
\* ports, tries and the per-endpoint attempt results: one result for every
\* endpoint the iterator yields, with the state the network fixes for it,
\* whatever the batch (>= 1) and the order of the completions; so two runs
\* that differ only in these return permutations of one another
C31_ResultsFixedUpToOrder ==
    (pc = "done" /\ batch >= 1) =>
        /\ Len(last_results.v) = SockCount(ips, ports)
        /\ \A e \in CrossProduct, st \in {"Open", "Close"} :
              Count(last_results.v, [target |-> e, state |-> st])
                 = IF st = FixedState(e) THEN Yields(e) ELSE 0

\* batch = 2, tries = 2: the second endpoint of the iterator completed first,
\* Open at its second attempt, the first endpoint is Closed
C31_Witness ==
    /\ pc = "done" /\ batch = 2 /\ tries = 2
    /\ Len(last_results.v) = 2
    /\ last_results.v[1] = [target |-> SockAt(ips, ports, 1), state |-> "Open"]
    /\ last_results.v[2] = [target |-> SockAt(ips, ports, 0), state |-> "Close"]
    /\ net.at[SockAt(ips, ports, 1)] = <<"Elapsed", "Stream">>

\* the same hosts, ports, tries and network with batch = 1: the results come
\* in the other order
C31_WitnessBatchOne ==
    /\ pc = "done" /\ batch = 1 /\ tries = 2
    /\ Len(last_results.v) = 2
    /\ last_results.v[1] = [target |-> SockAt(ips, ports, 0), state |-> "Close"]
    /\ last_results.v[2] = [target |-> SockAt(ips, ports, 1), state |-> "Open"]
    /\ net.at[SockAt(ips, ports, 1)] = <<"Elapsed", "Stream">>

====
